---------------------------- MODULE Spec2Model ----------------------------
(***************************************************************************)
(* Order-event extraction pipeline of deBridgeTest.                        *)
(*                                                                         *)
(* The Transaction Batch Fetcher (src/src/scrapper/transaction_getter.ts): *)
(* the async generator fetchOrdersInBatches pages the signature history of *)
(* a program address, retrieves the transactions of each page through      *)
(* _getTransactions (a p-limit pool of retry loops) and yields batches of  *)
(* reconstructed orders.                                                   *)
(*                                                                         *)
(* Signatures are numbered 1, 2, 3, ... from the newest to the oldest one  *)
(* that getSignaturesForAddress serves; 0 stands for "no cursor".  An      *)
(* order is the pair <<signature, index of the order in its transaction>>. *)
(*                                                                         *)
(* The RPC backend is nondeterministic: a page holds any number of         *)
(* signatures up to the requested limit, and every getParsedTransaction    *)
(* call returns the transaction, returns null, throws a 429 error or       *)
(* throws another error, within the budgets the initial state fixes.       *)
(* Thrown errors are Error objects with a message, as the RPC client       *)
(* throws them.  The consumer pulls with for await and does not abandon    *)
(* the generator.                                                          *)
(*                                                                         *)
(* The order parsers (src/src/scrapper/order_created_parser.ts and         *)
(* order_fulfilled_parser.ts) are functions of the events, log lines and   *)
(* inner instructions of one transaction and of the answers of the token   *)
(* Resolver.  They are operators here; CreatedSpec and FilledSpec apply    *)
(* them to every transaction of a bounded family, while the fetcher        *)
(* specifications leave the parser variables idle.                         *)
(*                                                                         *)
(* PipelineSpec runs the fetcher over a ledger of transactions and applies *)
(* parseDataFromTransaction (src/src/main.ts) to each of them.  CacheSpec  *)
(* is TokensInfoCache (src/src/infrastructure/tokens_info_cache.ts): calls *)
(* of getTokenInfo, each a lookup in the map and, on a miss, a fetch that  *)
(* resolves or rejects; OverlapSpec lets callers start a call while       *)
(* another is pending.  ResolverSpec applies the parsers to a              *)
(* TokensInfoCache in place of the abstract Resolver.  DbSpec is           *)
(* DBController (src/src/infrastructure/db_controller.ts): the             *)
(* staging_orders table, the client an operation takes from the pool and   *)
(* the queries it issues, any of which may fail.  SilverSpec runs          *)
(* saveBatchToDB and convertMainStagingTableToSilver on a database that    *)
(* rejects a statement only for a violated constraint, and follows the     *)
(* silver tables.                                                          *)
(***************************************************************************)
EXTENDS Integers, Sequences, FiniteSets, TLC

\* ------------------------------------------------------------------------
\* Program constants
\* ------------------------------------------------------------------------
MAX_CONCURRENT_REQUESTS == 5

SIGNATURES_BATCH_SIZE == 200

maxRetries == 5

\* ------------------------------------------------------------------------
\* Bounds of the model
\* ------------------------------------------------------------------------
\* signatures in the history of the address
MaxChain == 3

\* orders parseDataFromTransaction reconstructs from one transaction
MaxOrdersPerTx == 2

\* largest totalRequired a caller asks for
MaxTotal == 3

\* largest batchSize a caller asks for
MaxBatch == 2

\* rate-limit (429) answers the backend gives in one run
MaxRateLimits == 1

\* non-429 errors and null answers the backend gives in one run
MaxFaults == 1

\* Unlimited budget: the backend may fail every call
Unlimited == 0 - 1

VARIABLES
    totalRequired,    \* parameter
    batchSize,        \* parameter
    beforeSignature,  \* parameter: the starting cursor, 0 when absent
    pc,               \* position of the generator
    parsedOrders,     \* accumulated, not yet yielded orders
    lastSignature,    \* cursor: the oldest signature returned so far
    collectedCount,   \* orders reconstructed so far
    tasks,            \* the retrieval tasks of the current page
    historyLeft,      \* RPC: signatures older than the cursor
    rateLimitsLeft,   \* RPC: 429 answers it may still give
    errorsLeft,       \* RPC: other errors it may still give (or Unlimited)
    nullsLeft,        \* RPC: null answers it may still give
    ordersPerTx,      \* most orders one transaction of the address carries
    yielded,          \* the batches handed to the consumer, in order
    pageRequests,     \* calls of getSignaturesForAddress so far
    emptyPage,        \* a page came back empty
    pagingFailed,     \* getSignaturesForAddress threw
    fetchedSigs,      \* signatures getParsedTransaction was called for
    skipped,          \* signatures logged as "Skipped ... no more retries"
    outOfOrder,       \* a task ended while an earlier one of its page ran
    cursorsUsed,      \* the 'before' of every getSignaturesForAddress call
    lastPage,         \* the signatures of the latest non-empty page
    transaction,      \* parsers: the transaction handed to a parser
    tokensInfo,       \* parsers: how the Resolver answers a lookup
    parsed,           \* parsers: what the parser returned
    lookups,          \* parsers: the addresses asked of the Resolver
    tokens,           \* TokensInfoCache: the map of address to TokenInfo
    calls,            \* TokensInfoCache: the getTokenInfo calls, by start
    apiQueries,       \* TokensInfoCache: the addresses fetched, in order
    overlapping,      \* callers start a getTokenInfo while one is pending
    ledger,           \* RPC: the transaction of each signature, when known
    staging,          \* database: the committed rows of staging_orders
    working,          \* database: staging_orders inside the open transaction
    dbOp,             \* DBController: the operation running or last run
    issued,           \* DBController: the queries of that operation
    lastSaved,        \* database: the batch saved last, if nothing since
    silver,           \* database: the committed rows of the silver tables
    silverWorking     \* database: the silver tables inside the transaction

vars == <<totalRequired, batchSize, beforeSignature, pc, parsedOrders,
          lastSignature, collectedCount, tasks, historyLeft, rateLimitsLeft,
          errorsLeft, nullsLeft, ordersPerTx, yielded, pageRequests,
          emptyPage, pagingFailed, fetchedSigs, skipped, outOfOrder,
          cursorsUsed, lastPage, transaction, tokensInfo, parsed, lookups,
          tokens, calls, apiQueries, overlapping, ledger, staging, working,
          dbOp, issued, lastSaved, silver, silverWorking>>

\* what a parser works on and what it leaves behind
parserVars == <<transaction, tokensInfo, parsed, lookups>>

\* the database and the DBController
dbVars == <<staging, working, dbOp, issued, lastSaved, silver, silverWorking>>

\* the TokensInfoCache and its callers
cacheVars == <<tokens, calls, apiQueries, overlapping>>

\* what no step of the fetcher changes
params == <<totalRequired, batchSize, beforeSignature, ordersPerTx,
            parserVars, cacheVars, ledger, dbVars>>

\* ------------------------------------------------------------------------
\* Helpers
\* ------------------------------------------------------------------------
Min(a, b) == IF a < b THEN a ELSE b

RECURSIVE Flatten(_)
Flatten(ss) == IF ss = <<>> THEN <<>> ELSE Head(ss) \o Flatten(Tail(ss))

RECURSIVE SumLen(_)
SumLen(ss) == IF ss = <<>> THEN 0 ELSE Len(Head(ss)) + SumLen(Tail(ss))

\* Array.prototype.splice(0, n): the removed head and what stays in the array
SpliceAll(arr, n) == [removed |-> arr, rest |-> <<>>]

Splice(arr, n) ==
    [removed |-> SubSeq(arr, 1, Min(n, Len(arr))),
     rest    |-> SubSeq(arr, Min(n, Len(arr)) + 1, Len(arr))]

\* limit of one getSignaturesForAddress call
PageLimit(bs) == Min(SIGNATURES_BATCH_SIZE, bs)

\* the page getSignaturesForAddress serves for {before, limit}: the k
\* signatures that follow the cursor, the newest first
Page(before, k) == [i \in 1..k |-> before + i]

\* lastSignature = signatures[signatures.length - 1].signature
NextCursorFirst(signatures) == signatures[1]

NextCursor(signatures) == signatures[Len(signatures)]

\* while (collectedCount < totalRequired)
LoopConditionLax(cc, tr) == cc <= tr

LoopCondition(cc, tr) == cc < tr

\* if (parsedOrders.length >= batchSize || collectedCount >= totalRequired)
YieldCondition(po, bs, cc, tr) == Len(po) >= bs \/ cc >= tr

\* while (retriesCounter < maxRetries)
RetryConditionLax(r) == r <= maxRetries

RetryCondition(r) == r < maxRetries

\* ------------------------------------------------------------------------
\* Retrieval tasks of a page
\* ------------------------------------------------------------------------
NewTask == [phase |-> "queued", retriesCounter |-> 0, outcome |-> "none"]

DoneTask(res) == [phase |-> "done", retriesCounter |-> 0, outcome |-> res]

\* signature of the i-th task of the current page
SigOf(i) == lastSignature - Len(tasks) + i

IsActive(t) == t.phase \in {"fetch", "backoff", "finally"}

ActiveCount(ts) == Cardinality({i \in DOMAIN ts : IsActive(ts[i])})

\* await Promise.all(tasks)
AllDoneFirst(ts) == ts # <<>> => ts[1].phase = "done"

AllDone(ts) == \A i \in DOMAIN ts : ts[i].phase = "done"

\* p-limit: queued functions start in FIFO order while fewer than the
\* concurrency limit are running
AdmitAll(ts) ==
    [i \in DOMAIN ts |->
        IF ts[i].phase = "queued" THEN [ts[i] EXCEPT !.phase = "fetch"]
        ELSE ts[i]]

Admit(ts) ==
    LET free   == MAX_CONCURRENT_REQUESTS - ActiveCount(ts)
        queued == {i \in DOMAIN ts : ts[i].phase = "queued"}
        start  == {i \in queued : Cardinality({j \in queued : j < i}) < free}
    IN  [i \in DOMAIN ts |->
            IF i \in start THEN [ts[i] EXCEPT !.phase = "fetch"] ELSE ts[i]]

\* signatures of the tasks of ts (a page ending at cursor) that are fetching
Fetching(ts, cursor) ==
    {cursor - Len(ts) + i : i \in {j \in DOMAIN ts : ts[j].phase = "fetch"}}

\* results.filter(result => result !== null), in the order of the page
TransactionsReversed(ts, cursor) ==
    LET idx == SelectSeq([i \in 1..Len(ts) |-> Len(ts) + 1 - i],
                         LAMBDA i : ts[i].outcome = "tx")
    IN  [k \in 1..Len(idx) |-> cursor - Len(ts) + idx[k]]

Transactions(ts, cursor) ==
    LET idx == SelectSeq([i \in 1..Len(ts) |-> i],
                         LAMBDA i : ts[i].outcome = "tx")
    IN  [k \in 1..Len(idx) |-> cursor - Len(ts) + idx[k]]

\* the orders pushed for the transactions txs, cnt[s] orders for signature s
RECURSIVE PushOrders(_, _)
PushOrders(txs, cnt) ==
    IF txs = <<>> THEN <<>>
    ELSE [k \in 1..cnt[Head(txs)] |-> <<Head(txs), k>>]
         \o PushOrders(Tail(txs), cnt)

\* ------------------------------------------------------------------------
\* Initial states
\* ------------------------------------------------------------------------
\* silver_tokens, silver_order_status and silver_orders as created, each
\* the set of its rows
NoSilver == [tokens |-> {}, statuses |-> {}, orders |-> {}]

\* an empty database and a DBController that nobody calls
DbIdle ==
    /\ staging = <<>>
    /\ working = <<>>
    /\ dbOp = [name |-> "none", pc |-> "idle", batch |-> <<>>,
               acquired |-> 0, released |-> 0, outcome |-> "none"]
    /\ issued = <<>>
    /\ lastSaved = <<>>
    /\ silver = NoSilver
    /\ silverWorking = NoSilver

\* a new TokensInfoCache that nobody calls
CacheIdle ==
    /\ tokens = <<>>
    /\ calls = <<>>
    /\ apiQueries = <<>>
    /\ overlapping = FALSE

\* no transaction is handed to a parser, and the content of the
\* transactions of the address is left open
ParserIdle ==
    /\ CacheIdle
    /\ DbIdle
    /\ ledger = <<>>
    /\ transaction = [kind |-> "none", events |-> <<>>, logMessages |-> <<>>,
                      innerInstructions |-> <<>>]
    /\ tokensInfo = [answer |-> "null", precision |-> 0]
    /\ parsed = [status |-> "none", orders |-> <<>>]
    /\ lookups = <<>>

InitProgram ==
    /\ pc = "loop"
    /\ parsedOrders = <<>>
    /\ lastSignature = beforeSignature
    /\ collectedCount = 0
    /\ tasks = <<>>
    /\ yielded = <<>>
    /\ pageRequests = 0
    /\ emptyPage = FALSE
    /\ pagingFailed = FALSE
    /\ fetchedSigs = {}
    /\ skipped = {}
    /\ outOfOrder = FALSE
    /\ cursorsUsed = <<>>
    /\ lastPage = <<>>

Init ==
    /\ ParserIdle
    /\ beforeSignature = 0
    /\ InitProgram
    /\ totalRequired \in 0..MaxTotal
    /\ batchSize \in 1..MaxBatch
    /\ historyLeft = MaxChain
    /\ rateLimitsLeft = MaxRateLimits
    /\ errorsLeft = MaxFaults
    /\ nullsLeft = MaxFaults
    /\ ordersPerTx = MaxOrdersPerTx

\* ------------------------------------------------------------------------
\* fetchOrdersInBatches
\* ------------------------------------------------------------------------
\* getSignaturesForAddress throws: the error leaves the generator
PagingFailsSwallowed ==
    /\ pc = "loop"
    /\ LoopCondition(collectedCount, totalRequired)
    /\ pc' = "done"
    /\ pageRequests' = pageRequests + 1
    /\ cursorsUsed' = Append(cursorsUsed, lastSignature)
    /\ pagingFailed' = TRUE
    /\ UNCHANGED <<params, parsedOrders, lastSignature, collectedCount, tasks,
                   historyLeft, rateLimitsLeft, errorsLeft, nullsLeft, yielded,
                   emptyPage, fetchedSigs, skipped, outOfOrder, lastPage>>

PagingFails ==
    /\ pc = "loop"
    /\ LoopCondition(collectedCount, totalRequired)
    /\ pc' = "error"
    /\ pageRequests' = pageRequests + 1
    /\ cursorsUsed' = Append(cursorsUsed, lastSignature)
    /\ pagingFailed' = TRUE
    /\ UNCHANGED <<params, parsedOrders, lastSignature, collectedCount, tasks,
                   historyLeft, rateLimitsLeft, errorsLeft, nullsLeft, yielded,
                   emptyPage, fetchedSigs, skipped, outOfOrder, lastPage>>

\* an empty page: break
PageEmpty ==
    /\ pc = "loop"
    /\ LoopCondition(collectedCount, totalRequired)
    /\ pc' = "done"
    /\ pageRequests' = pageRequests + 1
    /\ cursorsUsed' = Append(cursorsUsed, lastSignature)
    /\ emptyPage' = TRUE
    /\ UNCHANGED <<params, parsedOrders, lastSignature, collectedCount, tasks,
                   historyLeft, rateLimitsLeft, errorsLeft, nullsLeft, yielded,
                   pagingFailed, fetchedSigs, skipped, outOfOrder, lastPage>>

\* a page of k signatures: the cursor moves to its last one and
\* _getTransactions hands one task per signature to the limiter
PageReturned ==
    /\ pc = "loop"
    /\ LoopCondition(collectedCount, totalRequired)
    /\ \E k \in 1..Min(PageLimit(batchSize), historyLeft) :
          /\ lastPage' = Page(lastSignature, k)
          /\ lastSignature' = NextCursor(lastPage')
          /\ historyLeft' = historyLeft - k
          /\ tasks' = Admit([i \in 1..k |-> NewTask])
          /\ fetchedSigs' = fetchedSigs \cup Fetching(tasks', lastSignature')
    /\ pc' = "tasks"
    /\ pageRequests' = pageRequests + 1
    /\ cursorsUsed' = Append(cursorsUsed, lastSignature)
    /\ UNCHANGED <<params, parsedOrders, collectedCount, rateLimitsLeft,
                   errorsLeft, nullsLeft, yielded, emptyPage, pagingFailed,
                   skipped, outOfOrder>>

\* the loop condition fails: the generator returns
LoopExit ==
    /\ pc = "loop"
    /\ ~LoopCondition(collectedCount, totalRequired)
    /\ pc' = "done"
    /\ UNCHANGED <<params, parsedOrders, lastSignature, collectedCount, tasks,
                   historyLeft, rateLimitsLeft, errorsLeft, nullsLeft, yielded,
                   pageRequests, emptyPage, pagingFailed, fetchedSigs, skipped,
                   outOfOrder, cursorsUsed, lastPage>>

\* ------------------------------------------------------------------------
\* _getTransactions: the retry loop of one task
\* ------------------------------------------------------------------------
TaskFrame == <<params, pc, parsedOrders, lastSignature, collectedCount,
               historyLeft, yielded, pageRequests, emptyPage, pagingFailed,
               cursorsUsed, lastPage>>

\* the i-th task ends while a task before it in the page has not ended
EndsOutOfOrder(ts, i) == \E j \in 1..(i - 1) : ts[j].phase # "done"

\* getParsedTransaction returns the transaction: bar.increment(), return
FetchReturns(i) ==
    /\ pc = "tasks"
    /\ i \in DOMAIN tasks
    /\ tasks[i].phase = "fetch"
    /\ tasks' = [tasks EXCEPT ![i].phase = "finally", ![i].outcome = "tx"]
    /\ UNCHANGED <<TaskFrame, rateLimitsLeft, errorsLeft, nullsLeft,
                   fetchedSigs, skipped, outOfOrder>>

\* getParsedTransaction returns null (the node does not know the transaction)
FetchReturnsNull(i) ==
    /\ pc = "tasks"
    /\ i \in DOMAIN tasks
    /\ tasks[i].phase = "fetch"
    /\ nullsLeft > 0
    /\ nullsLeft' = nullsLeft - 1
    /\ tasks' = [tasks EXCEPT ![i].phase = "finally", ![i].outcome = "null"]
    /\ UNCHANGED <<TaskFrame, rateLimitsLeft, errorsLeft, fetchedSigs, skipped,
                   outOfOrder>>

\* a 429 error: retriesCounter++, then the backoff delay
FetchRateLimited(i) ==
    /\ pc = "tasks"
    /\ i \in DOMAIN tasks
    /\ tasks[i].phase = "fetch"
    /\ rateLimitsLeft > 0
    /\ rateLimitsLeft' = rateLimitsLeft - 1
    /\ tasks' = [tasks EXCEPT ![i].phase = "backoff",
                              ![i].outcome = "429",
                              ![i].retriesCounter = @ + 1]
    /\ UNCHANGED <<TaskFrame, errorsLeft, nullsLeft, fetchedSigs, skipped,
                   outOfOrder>>

\* any other error: the catch block does nothing
FetchFails(i) ==
    /\ pc = "tasks"
    /\ i \in DOMAIN tasks
    /\ tasks[i].phase = "fetch"
    /\ errorsLeft # 0
    /\ errorsLeft' = IF errorsLeft = Unlimited THEN Unlimited ELSE errorsLeft - 1
    /\ tasks' = [tasks EXCEPT ![i].phase = "finally", ![i].outcome = "other"]
    /\ UNCHANGED <<TaskFrame, rateLimitsLeft, nullsLeft, fetchedSigs, skipped,
                   outOfOrder>>

\* the backoff delay of 1000 * retriesCounter ms is over: continue
BackoffElapsed(i) ==
    /\ pc = "tasks"
    /\ i \in DOMAIN tasks
    /\ tasks[i].phase = "backoff"
    /\ tasks' = [tasks EXCEPT ![i].phase = "finally"]
    /\ UNCHANGED <<TaskFrame, rateLimitsLeft, errorsLeft, nullsLeft,
                   fetchedSigs, skipped, outOfOrder>>

\* what the task does when the 500 ms delay of the finally block is over
AfterFinally(t) ==
    IF t.outcome \in {"tx", "null"} THEN "return"
    ELSE IF RetryCondition(t.retriesCounter) THEN "again"
    ELSE "skip"

\* the finally delay is over: the pending return completes, or the loop
\* goes round, or it ends and the signature is logged as skipped
FinallyElapsed(i) ==
    /\ pc = "tasks"
    /\ i \in DOMAIN tasks
    /\ tasks[i].phase = "finally"
    /\ LET next == AfterFinally(tasks[i]) IN
          /\ tasks' =
                IF next = "return"
                THEN Admit([tasks EXCEPT ![i] = DoneTask(tasks[i].outcome)])
                ELSE IF next = "again"
                THEN [tasks EXCEPT ![i].phase = "fetch", ![i].outcome = "none"]
                ELSE Admit([tasks EXCEPT ![i] = DoneTask("null")])
          /\ skipped' = IF next = "skip" THEN skipped \cup {SigOf(i)}
                        ELSE skipped
          /\ outOfOrder' = (outOfOrder \/
                             (next # "again" /\ EndsOutOfOrder(tasks, i)))
    /\ fetchedSigs' = fetchedSigs \cup Fetching(tasks', lastSignature)
    /\ UNCHANGED <<TaskFrame, rateLimitsLeft, errorsLeft, nullsLeft>>

\* ------------------------------------------------------------------------
\* fetchOrdersInBatches: reconstruction and yield
\* ------------------------------------------------------------------------
\* Promise.all resolved: every transaction is parsed, its orders pushed
ReconstructPage ==
    /\ pc = "tasks"
    /\ AllDone(tasks)
    /\ LET txs == Transactions(tasks, lastSignature) IN
       \E cnt \in [{txs[k] : k \in DOMAIN txs} -> 0..ordersPerTx] :
          LET pushed == PushOrders(txs, cnt) IN
          /\ parsedOrders' = parsedOrders \o pushed
          /\ collectedCount' = collectedCount + Len(pushed)
          /\ pc' = IF YieldCondition(parsedOrders', batchSize,
                                     collectedCount', totalRequired)
                   THEN "yield" ELSE "loop"
    /\ UNCHANGED <<params, lastSignature, tasks, historyLeft, rateLimitsLeft,
                   errorsLeft, nullsLeft, yielded, pageRequests, emptyPage,
                   pagingFailed, fetchedSigs, skipped, outOfOrder,
                   cursorsUsed, lastPage>>

\* parseDataFromTransaction rejects (a failed token lookup): the error
\* leaves the generator
ParseThrows ==
    /\ pc = "tasks"
    /\ AllDone(tasks)
    /\ Transactions(tasks, lastSignature) # <<>>
    /\ pc' = "error"
    /\ UNCHANGED <<params, parsedOrders, lastSignature, collectedCount, tasks,
                   historyLeft, rateLimitsLeft, errorsLeft, nullsLeft, yielded,
                   pageRequests, emptyPage, pagingFailed, fetchedSigs, skipped,
                   outOfOrder, cursorsUsed, lastPage>>

\* yield parsedOrders.splice(0, batchSize), and the consumer resumes
YieldBatch ==
    /\ pc = "yield"
    /\ LET s == Splice(parsedOrders, batchSize) IN
          /\ yielded' = Append(yielded, s.removed)
          /\ parsedOrders' = s.rest
    /\ pc' = "loop"
    /\ UNCHANGED <<params, lastSignature, collectedCount, tasks, historyLeft,
                   rateLimitsLeft, errorsLeft, nullsLeft, pageRequests,
                   emptyPage, pagingFailed, fetchedSigs, skipped, outOfOrder,
                   cursorsUsed, lastPage>>

Next ==
    \/ PagingFails
    \/ PageEmpty
    \/ PageReturned
    \/ LoopExit
    \/ \E i \in DOMAIN tasks : FetchReturns(i)
    \/ \E i \in DOMAIN tasks : FetchReturnsNull(i)
    \/ \E i \in DOMAIN tasks : FetchRateLimited(i)
    \/ \E i \in DOMAIN tasks : FetchFails(i)
    \/ \E i \in DOMAIN tasks : BackoffElapsed(i)
    \/ \E i \in DOMAIN tasks : FinallyElapsed(i)
    \/ ReconstructPage
    \/ ParseThrows
    \/ YieldBatch

Spec == Init /\ [][Next]_vars

\* ------------------------------------------------------------------------
\* Other environments
\* ------------------------------------------------------------------------
\* pages larger than the limiter's concurrency
PoolExtra == 1

\* a backend that answers 429 often enough to exhaust the retries of a task
RetryInit ==
    /\ ParserIdle
    /\ beforeSignature = 0
    /\ InitProgram
    /\ totalRequired = MaxTotal
    /\ batchSize = MaxBatch
    /\ historyLeft = MaxChain
    /\ rateLimitsLeft = maxRetries + MaxRateLimits
    /\ errorsLeft = MaxFaults
    /\ nullsLeft = MaxFaults
    /\ ordersPerTx = MaxOrdersPerTx

RetrySpec == RetryInit /\ [][Next]_vars

\* a page with more signatures than MAX_CONCURRENT_REQUESTS, on a backend
\* that gives one answer of each failing kind
PoolInit ==
    /\ ParserIdle
    /\ beforeSignature = 0
    /\ InitProgram
    /\ totalRequired = 1
    /\ batchSize = MAX_CONCURRENT_REQUESTS + PoolExtra
    /\ historyLeft = MAX_CONCURRENT_REQUESTS + PoolExtra
    /\ rateLimitsLeft = 1
    /\ errorsLeft = 1
    /\ nullsLeft = 1
    /\ ordersPerTx = 1

PoolSpec == PoolInit /\ [][Next]_vars

\* a caller that may pass a starting cursor
MaxBefore == 1

CursorInit ==
    /\ ParserIdle
    /\ beforeSignature \in 0..MaxBefore
    /\ InitProgram
    /\ totalRequired = MaxTotal
    /\ batchSize \in 1..MaxBatch
    /\ historyLeft = MaxChain
    /\ rateLimitsLeft = 1
    /\ errorsLeft = 1
    /\ nullsLeft = 1
    /\ ordersPerTx = 1

CursorSpec == CursorInit /\ [][Next]_vars

\* a backend whose non-429 failures may persist; every RPC call returns or
\* throws, every timer fires and the consumer keeps pulling
FairInit ==
    /\ ParserIdle
    /\ beforeSignature = 0
    /\ InitProgram
    /\ totalRequired \in 1..MaxTotal
    /\ batchSize \in 1..MaxBatch
    /\ historyLeft = MaxChain
    /\ rateLimitsLeft = MaxRateLimits
    /\ errorsLeft = Unlimited
    /\ nullsLeft = MaxFaults
    /\ ordersPerTx = MaxOrdersPerTx

Fairness ==
    /\ WF_vars(PagingFails \/ PageEmpty \/ PageReturned)
    /\ WF_vars(LoopExit)
    /\ WF_vars(ReconstructPage \/ ParseThrows)
    /\ WF_vars(YieldBatch)
    /\ \A i \in 1..MaxBatch :
          /\ WF_vars(FetchReturns(i) \/ FetchReturnsNull(i)
                     \/ FetchRateLimited(i) \/ FetchFails(i))
          /\ WF_vars(BackoffElapsed(i))
          /\ WF_vars(FinallyElapsed(i))

FairSpec == FairInit /\ [][Next]_vars /\ Fairness

\* ------------------------------------------------------------------------
\* The order parsers: values
\* ------------------------------------------------------------------------
(***************************************************************************)
(* An event is a record of its name and the fields of its data; a field    *)
(* that may be missing is <<>> when absent and <<v>> when present.  Byte   *)
(* arrays are sequences of 0..255, token addresses are the names of the    *)
(* public keys.  A number the code computes as n / 10 ** p is kept as the  *)
(* exact pair [num |-> n, exp |-> p]; the literal 0 is [num 0, exp 0].     *)
(***************************************************************************)
\* the sequences over S of length at most n
SeqUpTo(S, n) == UNION {[1..k -> S] : k \in 0..n}

Event(name, orderId, amount, tokenAddress, percentFee, fixedFee) ==
    [name |-> name, orderId |-> orderId, amount |-> amount,
     tokenAddress |-> tokenAddress, percentFee |-> percentFee,
     fixedFee |-> fixedFee]

\* Buffer.toString("hex"): two hexadecimal digits per byte
RECURSIVE ToHex(_)
ToHex(bytes) ==
    IF bytes = <<>> THEN <<>>
    ELSE <<Head(bytes) \div 16, Head(bytes) % 16>> \o ToHex(Tail(bytes))

\* new BN(Buffer.from(bytes), 'be')
RECURSIVE BigEndian(_)
BigEndian(bytes) ==
    IF bytes = <<>> THEN 0
    ELSE 256 * BigEndian(SubSeq(bytes, 1, Len(bytes) - 1)) + bytes[Len(bytes)]

\* BN.toString(): the decimal digits of n
RECURSIVE ToDecimal(_)
ToDecimal(n) ==
    IF n < 10 THEN <<n>> ELSE Append(ToDecimal(n \div 10), n % 10)

\* Number(string) of a string of decimal digits
RECURSIVE NumberOf(_)
NumberOf(digits) ==
    IF digits = <<>> THEN 0
    ELSE 10 * NumberOf(SubSeq(digits, 1, Len(digits) - 1))
         + digits[Len(digits)]

\* n / 10 ** decimals
Unscaled(n, decimals) == [num |-> n, exp |-> 0]

Scaled(n, decimals) == [num |-> n, exp |-> decimals]

\* return 0
Zero == [num |-> 0, exp |-> 0]

\* what a parser hands back: null, a list of orders, or a rejection; asked
\* are the addresses it passed to tokensInfo.getTokenInfo
ReturnsNull(asked) == [status |-> "null", orders |-> <<>>, asked |-> asked]

Returns(orders, asked) ==
    [status |-> "orders", orders |-> orders, asked |-> asked]

Throws(asked) == [status |-> "error", orders |-> <<>>, asked |-> asked]

\* ------------------------------------------------------------------------
\* The Resolver as the parsers see it
\* ------------------------------------------------------------------------
\* the symbol the token list has for an address
TokenList ==
    ("mintA" :> "USDT") @@ ("mintB" :> "BONK")
    @@ ("So11111111111111111111111111111111111111112" :> "SOL")

SymbolOf(pubkey) == TokenList[pubkey]

\* _getTokenInfoFromApi once the response is parsed: <<the TokenInfo>>
_getTokenInfoFromApiLast(tokenPK, data) ==
    IF Len(data) > 0
    THEN <<[key |-> tokenPK, symbol |-> data[Len(data)].symbol,
            precision |-> data[Len(data)].decimals]>>
    ELSE <<[key |-> tokenPK, symbol |-> tokenPK, precision |-> 6]>>

_getTokenInfoFromApi(tokenPK, data) ==
    IF Len(data) > 0
    THEN <<[key |-> tokenPK, symbol |-> data[1].symbol,
            precision |-> data[1].decimals]>>
    ELSE <<[key |-> tokenPK, symbol |-> tokenPK, precision |-> 6]>>

\* TokensInfoCache.getTokenInfo run to its end against the map ti.tokens and
\* an API that rejects or answers ti.data: null when the API has no match
getTokenInfoOrNull(ti, pubkey) ==
    IF pubkey \in DOMAIN ti.tokens
    THEN [kind |-> "info"] @@ ti.tokens[pubkey]
    ELSE IF ti.api = "rejects" \/ ti.data = <<>>
    THEN [kind |-> IF ti.api = "rejects" THEN "throw" ELSE "null",
          key |-> pubkey, symbol |-> "", precision |-> 0]
    ELSE [kind |-> "info"] @@ _getTokenInfoFromApi(pubkey, ti.data)[1]

\* TokensInfoCache.getTokenInfo run to its end against the map ti.tokens and
\* an API that rejects or answers ti.data
getTokenInfoOfCache(ti, pubkey) ==
    IF pubkey \in DOMAIN ti.tokens
    THEN [kind |-> "info"] @@ ti.tokens[pubkey]
    ELSE IF ti.api = "rejects"
    THEN [kind |-> "throw", key |-> pubkey, symbol |-> "", precision |-> 0]
    ELSE LET tokenInfo == _getTokenInfoFromApi(pubkey, ti.data) IN
         IF tokenInfo # <<>> THEN [kind |-> "info"] @@ tokenInfo[1]
         ELSE [kind |-> "null", key |-> pubkey, symbol |-> "",
               precision |-> 0]

\* tokensInfo.getTokenInfo(pubkey): a TokenInfo, null, or a rejection; of
\* the TokensInfoCache when ti holds one
getTokenInfo(ti, pubkey) ==
    IF ti.answer = "cache" THEN getTokenInfoOfCache(ti, pubkey)
    ELSE IF ti.answer = "info"
    THEN [kind |-> "info", key |-> pubkey, symbol |-> SymbolOf(pubkey),
          precision |-> ti.precision]
    ELSE [kind |-> ti.answer, key |-> pubkey, symbol |-> SymbolOf(pubkey),
          precision |-> 0]

\* ------------------------------------------------------------------------
\* OrderCreatedParser
\* ------------------------------------------------------------------------
\* Array.prototype.find: <<the first element with the name>>, or <<>>
FindLast(events, name) ==
    LET idx == {i \in DOMAIN events : events[i].name = name}
    IN  IF idx = {} THEN <<>>
        ELSE <<events[CHOOSE i \in idx : \A j \in idx : j <= i]>>

Find(events, name) ==
    LET idx == {i \in DOMAIN events : events[i].name = name}
    IN  IF idx = {} THEN <<>>
        ELSE <<events[CHOOSE i \in idx : \A j \in idx : i <= j]>>

\* if (!idEvent) return null; ... if (!orderEvent) return null;
MissingEventBoth(idEvent, orderEvent) == idEvent = <<>> /\ orderEvent = <<>>

MissingEvent(idEvent, orderEvent) == idEvent = <<>> \/ orderEvent = <<>>

\* the values used when the token is not resolved
DefaultTokenNative == [symbol |-> "SOL", precision |-> 9, key |-> "SOL"]

DefaultToken == [symbol |-> "USDC", precision |-> 6, key |-> "USDC"]

_getAmountFromOrderEvent(orderEvent, decimals) ==
    IF orderEvent.amount = <<>> THEN Zero
    ELSE Scaled(NumberOf(ToDecimal(BigEndian(orderEvent.amount[1]))),
                decimals)

_getFeeFromOrderEventTied(orderEvent, fieldName, decimals) ==
    LET feeRaw == IF fieldName = "percentFee" THEN orderEvent.percentFee
                  ELSE orderEvent.fixedFee
    IN  IF feeRaw = <<>> \/ orderEvent.amount = <<>> THEN Zero
        ELSE Scaled(NumberOf(ToDecimal(feeRaw[1])), decimals)

_getFeeFromOrderEvent(orderEvent, fieldName, decimals) ==
    LET feeRaw == IF fieldName = "percentFee" THEN orderEvent.percentFee
                  ELSE orderEvent.fixedFee
    IN  IF feeRaw = <<>> THEN Zero
        ELSE Scaled(NumberOf(ToDecimal(feeRaw[1])), decimals)

\* null without a lookup when the event has no token address
_getTokenInfoFromOrderEvent(orderEvent, ti) ==
    IF orderEvent.tokenAddress = <<>>
    THEN [kind |-> "null", asked |-> <<>>]
    ELSE LET pubkey == orderEvent.tokenAddress[1]
             info   == getTokenInfo(ti, pubkey)
         IN  [kind |-> info.kind, asked |-> <<pubkey>>, key |-> info.key,
              symbol |-> info.symbol, precision |-> info.precision]

parseOrderCreatedEvent(trnEvent, ti) ==
    LET idEvent    == Find(trnEvent, "CreatedOrderId")
        orderEvent == Find(trnEvent, "CreatedOrder")
    IN  IF MissingEvent(idEvent, orderEvent) THEN ReturnsNull(<<>>)
        \* idEvent.data, orderEvent.data of undefined: a TypeError
        ELSE IF idEvent = <<>> \/ orderEvent = <<>> THEN Throws(<<>>)
        ELSE
        LET tokenInfoResult ==
                _getTokenInfoFromOrderEvent(orderEvent[1], ti)
            token == IF tokenInfoResult.kind = "info"
                     THEN [symbol    |-> tokenInfoResult.symbol,
                           precision |-> tokenInfoResult.precision,
                           key       |-> tokenInfoResult.key]
                     ELSE DefaultToken
        IN  IF tokenInfoResult.kind = "throw"
            THEN Throws(tokenInfoResult.asked)
            ELSE Returns(
                   <<[orderId     |-> ToHex(idEvent[1].orderId),
                      status      |-> "created",
                      amount      |-> _getAmountFromOrderEvent(
                                          orderEvent[1], token.precision),
                      percentFee  |-> _getFeeFromOrderEvent(
                                          orderEvent[1], "percentFee",
                                          token.precision),
                      fixedFee    |-> _getFeeFromOrderEvent(
                                          orderEvent[1], "fixedFee",
                                          token.precision),
                      tokenSymbol |-> token.symbol,
                      tokenKey    |-> token.key]>>,
                   tokenInfoResult.asked)

\* ------------------------------------------------------------------------
\* OrderFulfilledParser
\* ------------------------------------------------------------------------
(***************************************************************************)
(* A log line is what the three includes() tests of                        *)
(* _getFulfilledEventsInstIndexes see of it.  An inner-instruction group   *)
(* is [index, instructions]; a parsed instruction is [programId, program,  *)
(* parsed] with parsed = <<>> or <<[type, info]>> and info = <<>> or       *)
(* <<[lamports, amount, tokenAmount, mint]>>, each an optional field; the  *)
(* amounts of the token program are strings of decimal digits.             *)
(***************************************************************************)
SystemProgram == "11111111111111111111111111111111"

TokenProgram == "TokenkegQfeZyiNwAJbNbGKPFXCWuBvf9Ss623VQ5DA"

NativeMint == "So11111111111111111111111111111111111111112"

\* the value of a division whose operand is undefined, and of Number(undefined)
NaN == [nan |-> TRUE]

\* a || b on numbers: b when a is NaN or 0
OrElse(a, b) == IF a = NaN \/ a.num = 0 THEN b ELSE a

LogLine(programID, invoke1, eventName) ==
    [programID |-> programID, invoke1 |-> invoke1, eventName |-> eventName]

Instruction(programId, program, parsedData) ==
    [programId |-> programId, program |-> program, parsed |-> parsedData]

Parsed(type, info) == [type |-> type, info |-> info]

Info(lamports, amount, tokenAmount, mint) ==
    [lamports |-> lamports, amount |-> amount, tokenAmount |-> tokenAmount,
     mint |-> mint]

\* dstEvents.filter(event => event.name === "Fulfilled")
Filter(events, name) == SelectSeq(events, LAMBDA e : e.name = name)

\* the loop over the log lines, from the counters reached so far
RECURSIVE ScanLogs(_, _, _, _)
ScanLogs(logMessages, programInvokeCounter, invokeCounter, instIndexes) ==
    IF logMessages = <<>> THEN instIndexes
    ELSE
    LET message == Head(logMessages)
        opened  == message.programID /\ message.invoke1
        pic     == IF opened THEN invokeCounter ELSE programInvokeCounter
        ic      == IF message.invoke1 THEN invokeCounter + 1
                   ELSE invokeCounter
        push    == message.eventName /\ pic # 0
    IN  ScanLogs(Tail(logMessages),
                 IF push THEN 0 - 1 ELSE pic,
                 ic,
                 IF push THEN Append(instIndexes, pic) ELSE instIndexes)

_getFulfilledEventsInstIndexes(logMessages) ==
    ScanLogs(logMessages, 0 - 1, 0, <<>>)

\* parsed?.type === "transfer" || parsed?.type === "transferChecked"
IsTransferPlain(instruction) ==
    /\ instruction.parsed # <<>>
    /\ instruction.parsed[1].type = "transfer"

IsTransfer(instruction) ==
    /\ instruction.parsed # <<>>
    /\ instruction.parsed[1].type \in {"transfer", "transferChecked"}

\* <<the first transfer of the group at the position>>, or <<>>
_getTransferInnerInstructionAt(innerInstructions, instIndex) ==
    IF instIndex \notin DOMAIN innerInstructions THEN <<>>
    ELSE LET found == SelectSeq(innerInstructions[instIndex].instructions,
                                IsTransfer)
         IN  IF found = <<>> THEN <<>> ELSE <<found[1]>>

\* <<the first transfer of the first group with the index>>, or <<>>
_getTransferInnerInstruction(innerInstructions, instIndex) ==
    LET groups == SelectSeq(innerInstructions,
                            LAMBDA inner : inner.index = instIndex)
    IN  IF groups = <<>> THEN <<>>
        ELSE LET found == SelectSeq(groups[1].instructions, IsTransfer)
             IN  IF found = <<>> THEN <<>> ELSE <<found[1]>>

\* if (... .length !== ... .length) return null
IndexMismatchFewer(instIndexes, ids) == Len(instIndexes) < Len(ids)

IndexMismatch(instIndexes, ids) == Len(instIndexes) # Len(ids)

TokenInfo(key, symbol, precision, asked) ==
    [kind |-> "info", key |-> key, symbol |-> symbol,
     precision |-> precision, asked |-> asked]

NoTokenInfo(kind, asked) ==
    [kind |-> kind, key |-> "", symbol |-> "", precision |-> 0,
     asked |-> asked]

_getTokenInfoFromInstruction(instruction, ti) ==
    IF instruction.programId = SystemProgram
    THEN LET tokenInfo == getTokenInfo(ti, NativeMint) IN
         IF tokenInfo.kind = "throw" THEN NoTokenInfo("throw", <<NativeMint>>)
         ELSE IF tokenInfo.kind = "null"
         THEN TokenInfo(NativeMint, "SOL", 9, <<NativeMint>>)
         ELSE TokenInfo(tokenInfo.key, tokenInfo.symbol, tokenInfo.precision,
                        <<NativeMint>>)
    ELSE IF instruction.program = "spl-token"
    THEN IF instruction.parsed = <<>> THEN NoTokenInfo("null", <<>>)
         ELSE IF instruction.parsed[1].info = <<>>
         THEN NoTokenInfo("null", <<>>)
         \* new PublicKey(undefined): a TypeError
         ELSE IF instruction.parsed[1].info[1].mint = <<>>
         THEN NoTokenInfo("throw", <<>>)
         ELSE LET tokenAddress == instruction.parsed[1].info[1].mint[1]
                  tokenInfo    == getTokenInfo(ti, tokenAddress)
              IN  IF tokenInfo.kind = "throw"
                  THEN NoTokenInfo("throw", <<tokenAddress>>)
                  ELSE IF tokenInfo.kind = "null"
                  THEN TokenInfo(tokenAddress, tokenAddress, 6,
                                 <<tokenAddress>>)
                  ELSE TokenInfo(tokenInfo.key, tokenInfo.symbol,
                                 tokenInfo.precision, <<tokenAddress>>)
    ELSE NoTokenInfo("null", <<>>)

_getAmountFromInstruction(innerTransferInstruction, tokenInfoResult) ==
    LET parsedData == innerTransferInstruction.parsed
        info       == parsedData[1].info
    IN  IF parsedData = <<>> THEN Zero
        ELSE IF innerTransferInstruction.programId = SystemProgram
        THEN IF info = <<>> THEN NaN
             ELSE IF info[1].lamports = <<>> THEN NaN
             ELSE Scaled(info[1].lamports[1], tokenInfoResult.precision)
        ELSE IF \/ innerTransferInstruction.program = "spl-token"
                \/ innerTransferInstruction.programId = TokenProgram
        THEN OrElse(
               IF info = <<>> THEN NaN
               ELSE IF info[1].amount = <<>> THEN NaN
               ELSE Scaled(NumberOf(info[1].amount[1]), 0),
               IF info = <<>> THEN NaN
               ELSE IF info[1].tokenAmount = <<>> THEN NaN
               ELSE Scaled(NumberOf(info[1].tokenAmount[1]),
                           tokenInfoResult.precision))
        ELSE Zero

\* the loop of parseOrderFilledEvent from the i-th Fulfilled event on
RECURSIVE FillOrders(_, _, _, _, _)
FillOrders(ids, instIndexes, innerInstructions, ti, i) ==
    IF i > Len(ids) THEN Returns(<<>>, <<>>)
    ELSE
    LET innerTransferInstruction ==
            _getTransferInnerInstruction(innerInstructions, instIndexes[i])
    IN  IF innerTransferInstruction = <<>>
        THEN FillOrders(ids, instIndexes, innerInstructions, ti, i + 1)
        ELSE
        LET tokenInfoResult ==
                _getTokenInfoFromInstruction(innerTransferInstruction[1], ti)
            rest == FillOrders(ids, instIndexes, innerInstructions, ti, i + 1)
            order == [orderId     |-> ids[i],
                      amount      |-> _getAmountFromInstruction(
                                          innerTransferInstruction[1],
                                          tokenInfoResult),
                      status      |-> "filled",
                      tokenKey    |-> tokenInfoResult.key,
                      tokenSymbol |-> tokenInfoResult.symbol]
        IN  IF tokenInfoResult.kind = "throw"
            THEN Throws(tokenInfoResult.asked)
            ELSE IF rest.status = "error"
            THEN Throws(tokenInfoResult.asked \o rest.asked)
            ELSE IF tokenInfoResult.kind = "null"
            THEN Returns(rest.orders, tokenInfoResult.asked \o rest.asked)
            ELSE Returns(<<order>> \o rest.orders,
                         tokenInfoResult.asked \o rest.asked)

parseOrderFilledEvent(dstEvents, ti, logMessages, innerInstructions) ==
    LET idEvent == Filter(dstEvents, "Fulfilled")
        fulfilledEventsIDs ==
            [k \in 1..Len(idEvent) |-> ToHex(idEvent[k].orderId)]
        fulfilledEventsInstIndexes ==
            _getFulfilledEventsInstIndexes(logMessages)
    IN  \* if (!idEvent) return null: an array is never falsy
        IF IndexMismatch(fulfilledEventsInstIndexes, fulfilledEventsIDs)
        THEN ReturnsNull(<<>>)
        ELSE FillOrders(fulfilledEventsIDs, fulfilledEventsInstIndexes,
                        innerInstructions, ti, 1)

\* ------------------------------------------------------------------------
\* The parsers applied to bounded inputs
\* ------------------------------------------------------------------------
\* events of one transaction handed to a parser
MaxEvents == 3

\* the give amount 101314781 as the event carries it
AmountBytes == <<6, 9, 240, 221>>

IdEvents ==
    {Event("CreatedOrderId", id, <<>>, <<>>, <<>>, <<>>) :
        id \in {<<0, 171>>, <<255>>}}

\* CreatedOrder events with and without a token address, carrying all of
\* amount, percentFee and fixedFee or just one of them
OrderEvents ==
    {Event("CreatedOrder", <<>>, f[1], t, f[2], f[3]) :
        t \in {<<>>, <<"mintA">>},
        f \in {<<<<AmountBytes>>, <<5>>, <<7>>>>,
               <<<<AmountBytes>>, <<>>, <<>>>>,
               <<<<>>, <<5>>, <<>>>>,
               <<<<>>, <<>>, <<7>>>>}}

OtherEvent == Event("Other", <<>>, <<>>, <<>>, <<>>, <<>>)

\* the Resolver knows every token (with 8 decimals, unlike any default of
\* the parsers), or none, or fails
Resolvers ==
    {[answer |-> "info", precision |-> 8],
     [answer |-> "null", precision |-> 0],
     [answer |-> "throw", precision |-> 0]}

\* the fetcher does not run
FetcherIdle ==
    /\ beforeSignature = 0
    /\ InitProgram
    /\ totalRequired = 0
    /\ batchSize = 1
    /\ historyLeft = 0
    /\ rateLimitsLeft = 0
    /\ errorsLeft = 0
    /\ nullsLeft = 0
    /\ ordersPerTx = 0
    /\ ledger = <<>>

fetcherVars == <<totalRequired, batchSize, beforeSignature, pc,
                 parsedOrders, lastSignature, collectedCount, tasks,
                 historyLeft, rateLimitsLeft, errorsLeft, nullsLeft,
                 ordersPerTx, yielded, pageRequests, emptyPage, pagingFailed,
                 fetchedSigs, skipped, outOfOrder, cursorsUsed, lastPage,
                 ledger>>

Transaction(kind, events, logMessages, innerInstructions) ==
    [kind |-> kind, events |-> events, logMessages |-> logMessages,
     innerInstructions |-> innerInstructions]

NotParsed == [status |-> "none", orders |-> <<>>]

CreatedInit ==
    /\ FetcherIdle
    /\ transaction \in
          {Transaction("src", e, <<>>, <<>>) :
              e \in SeqUpTo(IdEvents \cup OrderEvents \cup {OtherEvent},
                            MaxEvents)}
    /\ tokensInfo \in Resolvers
    /\ parsed = NotParsed
    /\ lookups = <<>>
    /\ CacheIdle
    /\ DbIdle

\* await orderCreatedParser.parseOrderCreatedEvent(srcEvents, tokensInfo)
CallParseOrderCreated ==
    /\ transaction.kind = "src"
    /\ parsed.status = "none"
    /\ LET r == parseOrderCreatedEvent(transaction.events, tokensInfo) IN
          /\ parsed' = [status |-> r.status, orders |-> r.orders]
          /\ lookups' = r.asked
    /\ UNCHANGED <<fetcherVars, transaction, tokensInfo, cacheVars, dbVars>>

CreatedNext == CallParseOrderCreated

CreatedSpec == CreatedInit /\ [][CreatedNext]_vars

\* Fulfilled events of one transaction
MaxFulfilled == 2

\* log lines of one transaction
MaxLogs == 4

\* transfer instructions of one inner-instruction group
MaxTransfers == 1

FulfilledEvents ==
    {Event("Fulfilled", id, <<>>, <<>>, <<>>, <<>>) :
        id \in {<<0, 171>>, <<255>>}}

\* "Program <dst> invoke [1]", "Program <other> invoke [1]" and
\* "Program log: Instruction: FulfillOrder"
DstInvoke == LogLine(TRUE, TRUE, FALSE)

OtherInvoke == LogLine(FALSE, TRUE, FALSE)

FulfillLine == LogLine(FALSE, FALSE, TRUE)

LogLines == {DstInvoke, OtherInvoke, FulfillLine}

\* the log of another program's instruction followed by n fulfillments, the
\* top-level instructions 1..n
Script(n) ==
    [k \in 1..(2 * n + 1) |->
        IF k = 1 THEN OtherInvoke
        ELSE IF k % 2 = 0 THEN DstInvoke ELSE FulfillLine]

\* a transfer of 808590964 lamports
SolTransfer ==
    Instruction(SystemProgram, "system",
        <<Parsed("transfer", <<Info(<<808590964>>, <<>>, <<>>, <<>>)>>)>>)

\* the token program's transfer: a flat amount, no mint
SplTransfer ==
    Instruction(TokenProgram, "spl-token",
        <<Parsed("transfer",
                 <<Info(<<>>, <<ToDecimal(1000000)>>, <<>>, <<>>)>>)>>)

\* a flat amount with the mint
SplTransferMint ==
    Instruction(TokenProgram, "spl-token",
        <<Parsed("transfer",
                 <<Info(<<>>, <<ToDecimal(1000000)>>, <<>>, <<"mintA">>)>>)>>)

\* the token program's transferChecked: tokenAmount.amount and the mint
SplTransferChecked ==
    Instruction(TokenProgram, "spl-token",
        <<Parsed("transferChecked",
                 <<Info(<<>>, <<>>, <<ToDecimal(1000000)>>, <<"mintA">>)>>)>>)

\* a transfer of a program that is neither
ForeignTransfer ==
    Instruction("unknown", "unknown-program",
        <<Parsed("transfer",
                 <<Info(<<>>, <<ToDecimal(1000000)>>, <<>>, <<>>)>>)>>)

NonTransfer ==
    Instruction(SystemProgram, "system", <<Parsed("createAccount", <<>>)>>)

Transfers == {SolTransfer, SplTransfer, SplTransferMint, SplTransferChecked,
              ForeignTransfer}

\* groups holding more than one transfer
SeveralTransfers ==
    {<<<<SolTransfer, SplTransferChecked>>>>,
     <<<<SplTransferChecked, NonTransfer, SolTransfer>>>>}

\* what the group of a top-level instruction holds: <<>> for no group
GroupContents ==
    {<<>>} \cup {<<prefix \o s>> : prefix \in {<<>>, <<NonTransfer>>},
                                  s \in SeqUpTo(Transfers, MaxTransfers)}
           \cup SeveralTransfers

InnerGroup(index, contents) ==
    IF contents = <<>> THEN <<>>
    ELSE <<[index |-> index, instructions |-> contents[1]]>>

\* transactions whose log lines and events vary, over fixed inner
\* instructions; and transactions of n fulfillments whose inner
\* instructions vary
\* n Fulfilled events
Fulfillments(n) ==
    [k \in 1..n |->
        Event("Fulfilled", IF k % 2 = 1 THEN <<0, 171>> ELSE <<255>>,
              <<>>, <<>>, <<>>, <<>>)]

\* transactions whose events and log lines vary, over fixed inner
\* instructions
LoggedTransactions ==
    {Transaction("dst", e, l,
                 InnerGroup(1, <<<<SolTransfer>>>>)
                     \o InnerGroup(2, <<<<SplTransferChecked>>>>)) :
        e \in SeqUpTo(FulfilledEvents \cup {OtherEvent}, MaxFulfilled),
        l \in SeqUpTo(LogLines, MaxLogs)}

\* transactions of n fulfillments whose inner instructions vary
PaidTransactions ==
    {Transaction("dst", Fulfillments(n), Script(n),
                 InnerGroup(1, c1) \o InnerGroup(2, c2)) :
        n \in 0..MaxFulfilled, c1 \in GroupContents, c2 \in GroupContents}

FilledInit ==
    /\ FetcherIdle
    /\ \/ /\ transaction \in LoggedTransactions
          /\ tokensInfo = [answer |-> "info", precision |-> 8]
       \/ /\ transaction \in PaidTransactions
          /\ tokensInfo \in Resolvers
    /\ parsed = NotParsed
    /\ lookups = <<>>
    /\ CacheIdle
    /\ DbIdle

\* await orderFulfilledParser.parseOrderFilledEvent(dstEvents, tokensInfo,
\* transaction)
CallParseOrderFilled ==
    /\ transaction.kind = "dst"
    /\ parsed.status = "none"
    /\ LET r == parseOrderFilledEvent(transaction.events, tokensInfo,
                                      transaction.logMessages,
                                      transaction.innerInstructions) IN
          /\ parsed' = [status |-> r.status, orders |-> r.orders]
          /\ lookups' = r.asked
    /\ UNCHANGED <<fetcherVars, transaction, tokensInfo, cacheVars, dbVars>>

FilledNext == CallParseOrderFilled

FilledSpec == FilledInit /\ [][FilledNext]_vars

\* ------------------------------------------------------------------------
\* parseDataFromTransaction and the loop of fetchOrdersInBatches over it
\* ------------------------------------------------------------------------
(***************************************************************************)
(* A transaction of the ledger is what the pipeline reads of a             *)
(* ParsedTransactionWithMeta: its signatures, its blockTime (<<>> when     *)
(* null or undefined), the events the two EventParsers decode from its log *)
(* lines, the log lines as _getFulfilledEventsInstIndexes sees them, and   *)
(* its inner instructions.                                                 *)
(***************************************************************************)
LedgerTx(signatures, blockTime, srcEvents, dstEvents, logMessages, innerInstructions) ==
    [signatures |-> signatures, blockTime |-> blockTime,
     srcEvents |-> srcEvents, dstEvents |-> dstEvents,
     logMessages |-> logMessages, innerInstructions |-> innerInstructions]

\* what parseDataFromTransaction hands back: undefined, a list of results,
\* or a rejection
ReturnsUndefined == [status |-> "undefined", results |-> <<>>]

ReturnsResults(results) == [status |-> "results", results |-> results]

Rejects == [status |-> "error", results |-> <<>>]

_collectTransactionParserResult(order, transactionTimestamp) ==
    [orderId     |-> order.orderId,
     status      |-> order.status,
     timestamp   |-> transactionTimestamp,
     tokenKey    |-> order.tokenKey,
     tokenSymbol |-> order.tokenSymbol,
     amount      |-> order.amount,
     percentFee  |-> IF "percentFee" \in DOMAIN order THEN order.percentFee
                     ELSE Zero,
     fixedFee    |-> IF "fixedFee" \in DOMAIN order THEN order.fixedFee
                     ELSE Zero]

\* the results of both parsers, the Created ones first
parseDataFromTransactionBoth(trn, ti) ==
    IF trn = <<>> THEN ReturnsUndefined
    ELSE IF trn[1].blockTime = <<>> THEN ReturnsUndefined
    ELSE
    LET transactionTimestamp == trn[1].blockTime[1]
        orderCreatedEvent == parseOrderCreatedEvent(trn[1].srcEvents, ti)
        orderFilledEvent ==
            parseOrderFilledEvent(trn[1].dstEvents, ti, trn[1].logMessages,
                                  trn[1].innerInstructions)
        both == orderCreatedEvent.orders \o orderFilledEvent.orders
    IN  IF "error" \in {orderCreatedEvent.status, orderFilledEvent.status}
        THEN Rejects
        ELSE IF both = <<>> THEN ReturnsUndefined
        ELSE ReturnsResults(
               [k \in DOMAIN both |->
                   _collectTransactionParserResult(both[k],
                                                   transactionTimestamp)])

\* trn is <<>> for null, else <<the transaction>>
parseDataFromTransaction(trn, ti) ==
    IF trn = <<>> THEN ReturnsUndefined
    ELSE IF trn[1].blockTime = <<>> THEN ReturnsUndefined
    ELSE
    LET transactionTimestamp == trn[1].blockTime[1]
        orderCreatedEvent == parseOrderCreatedEvent(trn[1].srcEvents, ti)
        orderFilledEvent ==
            parseOrderFilledEvent(trn[1].dstEvents, ti, trn[1].logMessages,
                                  trn[1].innerInstructions)
    IN  IF orderCreatedEvent.status = "error" THEN Rejects
        ELSE IF orderCreatedEvent.status # "null"
        THEN ReturnsResults(
               [k \in DOMAIN orderCreatedEvent.orders |->
                   _collectTransactionParserResult(
                       orderCreatedEvent.orders[k], transactionTimestamp)])
        ELSE IF orderFilledEvent.status = "error" THEN Rejects
        ELSE IF orderFilledEvent.status # "null"
        THEN ReturnsResults(
               [k \in DOMAIN orderFilledEvent.orders |->
                   _collectTransactionParserResult(
                       orderFilledEvent.orders[k], transactionTimestamp)])
        ELSE ReturnsUndefined

\* signature: transaction.transaction.signatures[0]
SignatureOfLast(trn) == trn.signatures[Len(trn.signatures)]

SignatureOf(trn) == trn.signatures[1]

\* { ...order, signature }
ResultOrder(order, trn) == [signature |-> SignatureOf(trn)] @@ order

\* the loop over the transactions of a page: the orders pushed, and whether
\* a parseDataFromTransaction call rejected and ended the loop
RECURSIVE ParsePage(_, _, _)
ParsePage(txs, lg, ti) ==
    IF txs = <<>> THEN [status |-> "done", orders |-> <<>>]
    ELSE
    LET trn        == lg[Head(txs)]
        parsedData == parseDataFromTransaction(<<trn>>, ti)
        rest       == ParsePage(Tail(txs), lg, ti)
    IN  IF parsedData.status = "error"
        THEN [status |-> "error", orders |-> <<>>]
        ELSE [status |-> rest.status,
              orders |-> [k \in DOMAIN parsedData.results |->
                             ResultOrder(parsedData.results[k], trn)]
                         \o rest.orders]

\* Promise.all resolved: every transaction of the page is parsed in turn and
\* its orders are pushed; a rejected parse leaves the generator as an error
ReconstructParsed ==
    /\ pc = "tasks"
    /\ AllDone(tasks)
    /\ \E r \in {ParsePage(Transactions(tasks, lastSignature), ledger,
                           tokensInfo)} :
          /\ parsedOrders' = parsedOrders \o r.orders
          /\ collectedCount' = IF r.status = "error" THEN collectedCount
                               ELSE collectedCount + Len(r.orders)
          /\ pc' = IF r.status = "error" THEN "error"
                   ELSE IF YieldCondition(parsedOrders', batchSize,
                                          collectedCount', totalRequired)
                   THEN "yield" ELSE "loop"
    /\ UNCHANGED <<params, lastSignature, tasks, historyLeft, rateLimitsLeft,
                   errorsLeft, nullsLeft, yielded, pageRequests, emptyPage,
                   pagingFailed, fetchedSigs, skipped, outOfOrder,
                   cursorsUsed, lastPage>>

\* the block time of the transaction with signature s
BlockTimeOf(s) == 1700000000 + s

\* a second signature of the transaction with first signature s
CoSignature(s) == 100 + s

\* the transaction of signature s, of one of six kinds: an order creation; a
\* fulfillment paid in lamports, with two signatures and block time 0; a
\* creation without block time; a creation together with a fulfillment; two
\* fulfillments; no event
LedgerKinds == 0..5

CreationEvents ==
    <<Event("CreatedOrderId", <<18, 52>>, <<>>, <<>>, <<>>, <<>>),
      Event("CreatedOrder", <<>>, <<AmountBytes>>, <<"mintA">>, <<5>>, <<7>>)>>

TransactionOfKind(kind, s) ==
    CASE kind = 0 ->
           LedgerTx(<<s>>, <<BlockTimeOf(s)>>, CreationEvents, <<>>, <<>>,
                    <<>>)
      [] kind = 1 ->
           LedgerTx(<<s, CoSignature(s)>>, <<0>>, <<>>, Fulfillments(1),
                    Script(1), InnerGroup(1, <<<<SolTransfer>>>>))
      [] kind = 2 ->
           LedgerTx(<<s>>, <<>>, CreationEvents, <<>>, <<>>, <<>>)
      [] kind = 3 ->
           LedgerTx(<<s>>, <<BlockTimeOf(s)>>, CreationEvents,
                    Fulfillments(1), Script(1),
                    InnerGroup(1, <<<<SolTransfer>>>>))
      [] kind = 4 ->
           LedgerTx(<<s, CoSignature(s)>>, <<BlockTimeOf(s)>>, <<>>,
                    Fulfillments(2), Script(2),
                    InnerGroup(1, <<<<SolTransfer>>>>)
                        \o InnerGroup(2, <<<<SplTransferChecked>>>>))
      [] OTHER ->
           LedgerTx(<<s>>, <<BlockTimeOf(s)>>, <<>>, <<>>, <<>>, <<>>)

\* the ledgers in which consecutive signatures carry consecutive kinds
Ledgers ==
    {[s \in 1..MaxChain |-> TransactionOfKind((s + shift) % 6, s)] :
        shift \in LedgerKinds}

\* a run over a ledger, with a Resolver that knows every token or fails, on
\* a backend that gives one answer of each failing kind
PipelineInit ==
    /\ beforeSignature = 0
    /\ InitProgram
    /\ totalRequired = MaxTotal
    /\ batchSize \in 1..MaxBatch
    /\ historyLeft = MaxChain
    /\ rateLimitsLeft = 1
    /\ errorsLeft = 1
    /\ nullsLeft = 1
    /\ ordersPerTx = 0
    /\ ledger \in Ledgers
    /\ transaction = Transaction("none", <<>>, <<>>, <<>>)
    /\ tokensInfo \in {[answer |-> "info", precision |-> 8],
                       [answer |-> "throw", precision |-> 0]}
    /\ parsed = [status |-> "none", orders |-> <<>>]
    /\ lookups = <<>>
    /\ CacheIdle
    /\ DbIdle

PipelineNext ==
    \/ PagingFails
    \/ PageEmpty
    \/ PageReturned
    \/ LoopExit
    \/ \E i \in DOMAIN tasks : FetchReturns(i)
    \/ \E i \in DOMAIN tasks : FetchReturnsNull(i)
    \/ \E i \in DOMAIN tasks : FetchRateLimited(i)
    \/ \E i \in DOMAIN tasks : FetchFails(i)
    \/ \E i \in DOMAIN tasks : BackoffElapsed(i)
    \/ \E i \in DOMAIN tasks : FinallyElapsed(i)
    \/ ReconstructParsed
    \/ YieldBatch

PipelineSpec == PipelineInit /\ [][PipelineNext]_vars

\* ------------------------------------------------------------------------
\* TokensInfoCache
\* ------------------------------------------------------------------------
(***************************************************************************)
(* The token search API answers a query with an array of entries           *)
(* [symbol, decimals], possibly empty, or the request fails (fetch or      *)
(* response.json() rejects).  It may answer the same query differently at  *)
(* different times.  A getTokenInfo call is [pubkey, phase, queried,       *)
(* answer, result]: queried tells whether it called fetch, answer is <<>>  *)
(* or <<the array received>>, result is <<>> (null, or nothing yet) or     *)
(* <<the TokenInfo returned>>.  getTokenInfo has one await, on the API, so *)
(* a call is a step up to the await and a step after it.                   *)
(***************************************************************************)
\* getTokenInfo calls of one run
MaxCalls == 3

\* entries of one answer of the token search API
MaxMatches == 2

CacheAddresses == {"mintA", "mintB"}

ApiEntry(symbol, decimals) == [symbol |-> symbol, decimals |-> decimals]

ApiEntries == {ApiEntry("USDC", 6), ApiEntry("SOL", 9)}

ApiAnswers == SeqUpTo(ApiEntries, MaxMatches)

\* this.tokens.set(tokenPublicKeyString, tokenInfo)
MapSetNothing(map, key, value) == map

MapSet(map, key, value) == (key :> value) @@ map

Call(pubkey, phase, queried, answer, result) ==
    [pubkey |-> pubkey, phase |-> phase, queried |-> queried,
     answer |-> answer, result |-> result]

\* the calls waiting for the API
Pending(cs) == {c \in DOMAIN cs : cs[c].phase = "fetching"}

\* a caller may start a call
MayCall == Len(calls) < MaxCalls /\ (overlapping \/ Pending(calls) = {})

\* the address is in the map: return cachedTokenInfo
GetTokenInfoCached(pubkey) ==
    /\ MayCall
    /\ pubkey \in DOMAIN tokens
    /\ calls' = Append(calls, Call(pubkey, "returned", FALSE, <<>>,
                                   <<tokens[pubkey]>>))
    /\ UNCHANGED <<fetcherVars, parserVars, dbVars, tokens, apiQueries, overlapping>>

\* fetch(...search?query=<address>) whether the address is in the map or not
GetTokenInfoRefetched(pubkey) ==
    /\ MayCall
    /\ calls' = Append(calls, Call(pubkey, "fetching", TRUE, <<>>, <<>>))
    /\ apiQueries' = Append(apiQueries, pubkey)
    /\ UNCHANGED <<fetcherVars, parserVars, dbVars, tokens, overlapping>>

\* the address is not in the map: fetch(...search?query=<address>)
GetTokenInfoMissed(pubkey) ==
    /\ MayCall
    /\ pubkey \notin DOMAIN tokens
    /\ calls' = Append(calls, Call(pubkey, "fetching", TRUE, <<>>, <<>>))
    /\ apiQueries' = Append(apiQueries, pubkey)
    /\ UNCHANGED <<fetcherVars, parserVars, dbVars, tokens, overlapping>>

\* the API answers call c with data: the TokenInfo is stored unless the
\* address has an entry, and returned
FetchResolvesFirstWins(c, data) ==
    /\ c \in Pending(calls)
    /\ LET tokenInfo == _getTokenInfoFromApi(calls[c].pubkey, data) IN
          /\ tokens' = IF calls[c].pubkey \in DOMAIN tokens THEN tokens
                        ELSE MapSet(tokens, calls[c].pubkey, tokenInfo[1])
          /\ calls' = [calls EXCEPT ![c] =
                          Call(@.pubkey, "returned", TRUE, <<data>>,
                               tokenInfo)]
    /\ UNCHANGED <<fetcherVars, parserVars, dbVars, apiQueries, overlapping>>

\* the API answers call c with data: the TokenInfo is stored and returned
FetchResolves(c, data) ==
    /\ c \in Pending(calls)
    /\ LET tokenInfo == _getTokenInfoFromApi(calls[c].pubkey, data) IN
          IF tokenInfo # <<>>
          THEN /\ tokens' = MapSet(tokens, calls[c].pubkey, tokenInfo[1])
               /\ calls' = [calls EXCEPT ![c] =
                               Call(@.pubkey, "returned", TRUE, <<data>>,
                                    tokenInfo)]
          ELSE \* return null
               /\ tokens' = tokens
               /\ calls' = [calls EXCEPT ![c] =
                               Call(@.pubkey, "returned", TRUE, <<data>>,
                                    <<>>)]
    /\ UNCHANGED <<fetcherVars, parserVars, dbVars, apiQueries, overlapping>>

\* the request of call c fails: getTokenInfo rejects
FetchRejectsCached(c) ==
    /\ c \in Pending(calls)
    /\ tokens' = MapSet(tokens, calls[c].pubkey,
                        _getTokenInfoFromApi(calls[c].pubkey, <<>>)[1])
    /\ calls' = [calls EXCEPT ![c].phase = "rejected"]
    /\ UNCHANGED <<fetcherVars, parserVars, dbVars, apiQueries, overlapping>>

FetchRejects(c) ==
    /\ c \in Pending(calls)
    /\ calls' = [calls EXCEPT ![c].phase = "rejected"]
    /\ UNCHANGED <<fetcherVars, parserVars, dbVars, tokens, apiQueries, overlapping>>

\* a new cache whose callers await each call before the next
CacheInit ==
    /\ FetcherIdle
    /\ transaction = Transaction("none", <<>>, <<>>, <<>>)
    /\ tokensInfo = [answer |-> "null", precision |-> 0]
    /\ parsed = NotParsed
    /\ lookups = <<>>
    /\ tokens = <<>>
    /\ calls = <<>>
    /\ apiQueries = <<>>
    /\ overlapping = FALSE
    /\ DbIdle

CacheNext ==
    \/ \E pubkey \in CacheAddresses : GetTokenInfoCached(pubkey)
    \/ \E pubkey \in CacheAddresses : GetTokenInfoMissed(pubkey)
    \/ \E c \in DOMAIN calls : \E data \in ApiAnswers : FetchResolves(c, data)
    \/ \E c \in DOMAIN calls : FetchRejects(c)

CacheSpec == CacheInit /\ [][CacheNext]_vars

\* a new cache whose callers do not wait for one another, as the retrieval
\* of several transactions at a time would have it
OverlapInit ==
    /\ FetcherIdle
    /\ transaction = Transaction("none", <<>>, <<>>, <<>>)
    /\ tokensInfo = [answer |-> "null", precision |-> 0]
    /\ parsed = NotParsed
    /\ lookups = <<>>
    /\ tokens = <<>>
    /\ calls = <<>>
    /\ apiQueries = <<>>
    /\ overlapping = TRUE
    /\ DbIdle

\* what the API may answer to overlapping calls: no match, one match, two
OverlapAnswers ==
    {<<>>, <<ApiEntry("USDC", 6)>>, <<ApiEntry("SOL", 9), ApiEntry("USDC", 6)>>}

OverlapNext ==
    \/ \E pubkey \in CacheAddresses : GetTokenInfoCached(pubkey)
    \/ \E pubkey \in CacheAddresses : GetTokenInfoMissed(pubkey)
    \/ \E c \in DOMAIN calls :
          \E data \in OverlapAnswers : FetchResolves(c, data)
    \/ \E c \in DOMAIN calls : FetchRejects(c)

OverlapSpec == OverlapInit /\ [][OverlapNext]_vars

\* ------------------------------------------------------------------------
\* The parsers over the TokensInfoCache
\* ------------------------------------------------------------------------
(***************************************************************************)
(* main.ts hands the parsers a TokensInfoCache.  One parse runs against    *)
(* the map as it is and against an API that, during the parse, rejects or  *)
(* answers every query with the same array; the lookups of the parse are   *)
(* awaited one after the other, so each sees the entries the earlier ones  *)
(* stored.                                                                 *)
(***************************************************************************)
\* the API during one parse
ApiBehaviours ==
    {[answer |-> "cache", precision |-> 0, api |-> "rejects", data |-> <<>>]}
    \cup {[answer |-> "cache", precision |-> 0, api |-> "ok", data |-> d] :
             d \in ApiAnswers}

\* the map before the parse: empty, or one address resolved earlier
CacheContents ==
    {<<>>} \cup {MapSet(<<>>, k, _getTokenInfoFromApi(k, d)[1]) :
                    k \in {NativeMint, "mintA"}, d \in ApiAnswers}

\* the resolver a parse sees
CacheOf(ti, map) ==
    [answer |-> ti.answer, precision |-> ti.precision, api |-> ti.api,
     data |-> ti.data, tokens |-> map]

\* the map and the queries after the lookups of the addresses asked, in
\* their order
RECURSIVE Resolve(_, _, _, _)
Resolve(map, queries, asked, ti) ==
    IF asked = <<>> THEN [tokens |-> map, apiQueries |-> queries]
    ELSE LET pubkey == Head(asked) IN
         IF pubkey \in DOMAIN map
         THEN Resolve(map, queries, Tail(asked), ti)
         ELSE IF ti.api = "rejects"
         THEN Resolve(map, Append(queries, pubkey), Tail(asked), ti)
         ELSE Resolve(MapSet(map, pubkey,
                             _getTokenInfoFromApi(pubkey, ti.data)[1]),
                      Append(queries, pubkey), Tail(asked), ti)

\* a creation with or without a token address; one or two fulfillments paid
\* by native or token transfers
ResolvedTransactions ==
    {Transaction("src", <<i, o>>, <<>>, <<>>) :
        i \in IdEvents, o \in OrderEvents}
    \cup {Transaction("dst", Fulfillments(n), Script(n),
                      InnerGroup(1, <<<<t1>>>>) \o InnerGroup(2, <<<<t2>>>>)) :
             n \in 1..2,
             t1 \in {SolTransfer, SplTransferChecked, SplTransferMint},
             t2 \in {SolTransfer, SplTransferChecked, SplTransferMint}}

ResolverInit ==
    /\ FetcherIdle
    /\ transaction \in ResolvedTransactions
    /\ tokensInfo \in ApiBehaviours
    /\ tokens \in CacheContents
    /\ parsed = NotParsed
    /\ lookups = <<>>
    /\ calls = <<>>
    /\ apiQueries = <<>>
    /\ overlapping = FALSE
    /\ DbIdle

\* await orderCreatedParser.parseOrderCreatedEvent(srcEvents, tokensInfo)
CallParseOrderCreatedCached ==
    /\ tokensInfo.answer = "cache"
    /\ transaction.kind = "src"
    /\ parsed.status = "none"
    /\ LET r == parseOrderCreatedEvent(transaction.events,
                                       CacheOf(tokensInfo, tokens))
           after == Resolve(tokens, apiQueries, r.asked, tokensInfo)
       IN /\ parsed' = [status |-> r.status, orders |-> r.orders]
          /\ lookups' = r.asked
          /\ tokens' = after.tokens
          /\ apiQueries' = after.apiQueries
    /\ UNCHANGED <<fetcherVars, transaction, tokensInfo, calls, overlapping,
                   dbVars>>

\* await orderFulfilledParser.parseOrderFilledEvent(dstEvents, tokensInfo,
\* transaction)
CallParseOrderFilledCached ==
    /\ tokensInfo.answer = "cache"
    /\ transaction.kind = "dst"
    /\ parsed.status = "none"
    /\ LET r == parseOrderFilledEvent(transaction.events,
                                      CacheOf(tokensInfo, tokens),
                                      transaction.logMessages,
                                      transaction.innerInstructions)
           after == Resolve(tokens, apiQueries, r.asked, tokensInfo)
       IN /\ parsed' = [status |-> r.status, orders |-> r.orders]
          /\ lookups' = r.asked
          /\ tokens' = after.tokens
          /\ apiQueries' = after.apiQueries
    /\ UNCHANGED <<fetcherVars, transaction, tokensInfo, calls, overlapping,
                   dbVars>>

ResolverNext == CallParseOrderCreatedCached \/ CallParseOrderFilledCached

ResolverSpec == ResolverInit /\ [][ResolverNext]_vars

\* ------------------------------------------------------------------------
\* DBController
\* ------------------------------------------------------------------------
(***************************************************************************)
(* One caller runs the operations of the DBController one after the other  *)
(* (main awaits each).  An operation that takes a client from the pool is  *)
(* a step up to its first await on client.query and a step per answer of   *)
(* the database; every query may fail.  Of the tables, staging_orders is   *)
(* represented: a sequence of rows in the order of their ids, with the     *)
(* columns the INSERT of saveBatchToDB sets, is_processed, and aged for    *)
(* add_at < NOW() - INTERVAL '3 day'; and silver_tokens,                   *)
(* silver_order_status and silver_orders, each the set of its rows without *)
(* the ids.  Statements on the price tables and on the views only succeed  *)
(* or fail.  A COMMIT that fails commits nothing.  dbOp.batch is the batch *)
(* of the running saveBatchToDB.  DbSpec runs every operation but          *)
(* convertMainStagingTableToSilver, which SilverSpec runs.                 *)
(***************************************************************************)
\* orders of one batch handed to saveBatchToDB
MaxRows == 2

RECURSIVE TenTo(_)
TenTo(k) == IF k = 0 THEN 1 ELSE 10 * TenTo(k - 1)

\* a > b for numbers n / 10 ** p, p of either sign, a and b not negative
Greater(a, b) ==
    LET m  == Min(a.exp, b.exp)
        ea == b.exp - m
        eb == a.exp - m
    IN  IF eb > 9 THEN b.num = 0 /\ a.num > 0
        ELSE IF ea > 9 THEN a.num > 0
        ELSE a.num * TenTo(ea) > b.num * TenTo(eb)

\* 10 ** 20 - 10 ** -8, which is 1e20 as a double
MAX_DECIMAL_VALUE == [num |-> 1, exp |-> 0 - 20]

\* '2015-01-01'::timestamp, in seconds
Year2015 == 1420070400

\* String.prototype.toUpperCase on the strings that occur
ToUpperCase(str) ==
    CASE str = "created" -> "CREATED"
      [] str = "filled"  -> "FILLED"
      [] str = "mintA"   -> "MINTA"
      [] OTHER           -> str

\* a number stored in a DECIMAL(_, scale) column: rounded to scale places
Numeric(n, scale) ==
    IF n.exp <= scale THEN n
    ELSE [num |-> (n.num + 5 * TenTo(n.exp - scale - 1))
                      \div TenTo(n.exp - scale),
          exp |-> scale]

OrderInfo(signature, orderId, status, tokenKey, tokenSymbol, amount) ==
    [signature |-> signature, orderId |-> orderId, status |-> status,
     timestamp |-> BlockTimeOf(signature), tokenKey |-> tokenKey,
     tokenSymbol |-> tokenSymbol, amount |-> amount,
     percentFee |-> [num |-> 1, exp |-> 2],
     fixedFee |-> [num |-> 5, exp |-> 1]]

\* two orders filled by the transaction of signature 1 and an order created
\* by that of signature 2
SoundOrders ==
    {OrderInfo(1, "order_1", "filled", "mintA", "mintA",
               [num |-> 1005, exp |-> 1]),
     OrderInfo(1, "order_9", "filled", NativeMint, "SOL",
               [num |-> 808590964, exp |-> 9]),
     OrderInfo(2, "order_2", "created", NativeMint, "SOL",
               [num |-> 5025, exp |-> 2])}

\* an order of amount 0 and an order of amount 10 ** 21
ZeroOrder == OrderInfo(2, "order_3", "created", "USDC", "USDC", Zero)

HugeOrder ==
    OrderInfo(1, "order_4", "created", "USDC", "USDC",
              [num |-> 1, exp |-> 0 - 21])

\* the batches of sound orders, and the batches that end with an unsound one
Batches ==
    SeqUpTo(SoundOrders, MaxRows)
        \cup {<<bad>> : bad \in {ZeroOrder, HugeOrder}}
        \cup {<<o, bad>> : o \in SoundOrders, bad \in {ZeroOrder, HugeOrder}}

\* the row the INSERT of saveBatchToDB makes of an order
Row(e) ==
    [signature    |-> e.signature,
     order_id     |-> e.orderId,
     status       |-> ToUpperCase(e.status),
     token_key    |-> e.tokenKey,
     token_symbol |-> ToUpperCase(e.tokenSymbol),
     amount       |-> Numeric(e.amount, 8),
     percent_fee  |-> Numeric(e.percentFee, 8),
     fixed_fee    |-> Numeric(e.fixedFee, 8),
     timestamp    |-> e.timestamp,
     is_processed |-> FALSE,
     aged         |-> FALSE]

Rows(batch) == [k \in DOMAIN batch |-> Row(batch[k])]

\* the CHECK constraints of staging_orders
CheckStagingOrder(row) ==
    /\ row.amount.num > 0
    /\ row.percent_fee.num >= 0
    /\ row.fixed_fee.num >= 0
    /\ row.timestamp > Year2015

Stored(table, signature) ==
    \E i \in DOMAIN table : table[i].signature = signature

\* INSERT INTO staging_orders ... ON CONFLICT (signature) DO NOTHING
RECURSIVE InsertStagingOrdersUpdate(_, _)
InsertStagingOrdersUpdate(table, rows) ==
    IF rows = <<>> THEN table
    ELSE IF Stored(table, Head(rows).signature)
    THEN InsertStagingOrdersUpdate(
             [i \in DOMAIN table |->
                 IF table[i].signature = Head(rows).signature
                 THEN Head(rows) ELSE table[i]],
             Tail(rows))
    ELSE InsertStagingOrdersUpdate(Append(table, Head(rows)), Tail(rows))

RECURSIVE InsertStagingOrders(_, _)
InsertStagingOrders(table, rows) ==
    IF rows = <<>> THEN table
    ELSE IF Stored(table, Head(rows).signature)
    THEN InsertStagingOrders(table, Tail(rows))
    ELSE InsertStagingOrders(Append(table, Head(rows)), Tail(rows))

\* DELETE FROM staging_orders WHERE is_processed = TRUE and add_at < ...
DeleteProcessed(table) ==
    SelectSeq(table, LAMBDA row : ~(row.is_processed /\ row.aged))

\* UPDATE staging_orders SET is_processed = TRUE WHERE is_processed = FALSE
MarkProcessed(table) ==
    [i \in DOMAIN table |-> [table[i] EXCEPT !.is_processed = TRUE]]

Transactional ==
    {"clearStagingTables", "saveBatchToDB", "convertMainStagingTableToSilver",
     "saveTokenPricesToDB", "convertStagingPricesToSilver", "madeViews"}

ReadOnly ==
    {"getEarliestDBRecordFromStaging", "getTokenTimeListNotInPriceTable"}

\* the queries of the try block of an operation
Statements(name) ==
    CASE name = "clearStagingTables" ->
           <<"BEGIN", "DELETE FROM staging_orders",
             "DELETE FROM staging_prices", "COMMIT">>
      [] name = "saveBatchToDB" ->
           <<"BEGIN", "INSERT INTO staging_orders", "COMMIT">>
      [] name = "convertMainStagingTableToSilver" ->
           <<"BEGIN", "INSERT INTO silver_tokens",
             "INSERT INTO silver_order_status",
             "UPDATE staging_orders INSERT INTO silver_orders", "COMMIT">>
      [] name = "saveTokenPricesToDB" ->
           <<"BEGIN", "INSERT INTO staging_prices", "COMMIT">>
      [] name = "convertStagingPricesToSilver" ->
           <<"BEGIN", "UPDATE staging_prices INSERT INTO silver_prices",
             "COMMIT">>
      [] OTHER ->
           <<"BEGIN", "CREATE OR REPLACE VIEW gold_orders_view", "COMMIT">>

\* the database can execute the statement
StatementOk(text, rows) ==
    text = "INSERT INTO staging_orders"
        => \A k \in DOMAIN rows : CheckStagingOrder(rows[k])

\* staging_orders after the statement
Apply(text, table, rows) ==
    CASE text = "INSERT INTO staging_orders" ->
           InsertStagingOrders(table, rows)
      [] text = "DELETE FROM staging_orders" -> DeleteProcessed(table)
      [] text = "UPDATE staging_orders INSERT INTO silver_orders" ->
           MarkProcessed(table)
      [] OTHER -> table

\* the rows WHERE is_processed = FALSE selects
Unprocessed(table) == SelectSeq(table, LAMBDA row : ~row.is_processed)

\* INSERT INTO silver_tokens (token_key, token_symbol) SELECT DISTINCT ...
\* ON CONFLICT (token_key) DO NOTHING: a row whose token_key is stored is
\* skipped; any other row whose token_symbol is stored violates the UNIQUE
\* constraint of token_symbol, which the conflict target does not cover
RECURSIVE InsertSilverTokens(_, _)
InsertSilverTokens(table, rows) ==
    IF rows = <<>> THEN [rows |-> table, violated |-> FALSE]
    ELSE IF \E t \in table : t.token_key = Head(rows).token_key
    THEN InsertSilverTokens(table, Tail(rows))
    ELSE IF \E t \in table : t.token_symbol = Head(rows).token_symbol
    THEN [rows |-> table, violated |-> TRUE]
    ELSE InsertSilverTokens(
             table \cup {[token_key    |-> Head(rows).token_key,
                          token_symbol |-> Head(rows).token_symbol]},
             Tail(rows))

\* INSERT INTO silver_order_status (status) SELECT DISTINCT status ...
\* ON CONFLICT (status) DO NOTHING
InsertSilverOrderStatus(table, rows) ==
    table \cup {rows[k].status : k \in DOMAIN rows}

\* moved_orders JOIN silver_tokens JOIN silver_order_status
Joined(tables, rows) ==
    SelectSeq(rows, LAMBDA row :
        /\ \E t \in tables.tokens : t.token_key = row.token_key
        /\ row.status \in tables.statuses)

\* INSERT INTO silver_orders ... ON CONFLICT (signature) DO NOTHING
RECURSIVE InsertSilverOrders(_, _)
InsertSilverOrders(table, rows) ==
    IF rows = <<>> THEN table
    ELSE IF \E o \in table : o.signature = Head(rows).signature
    THEN InsertSilverOrders(table, Tail(rows))
    ELSE InsertSilverOrders(
             table \cup {[signature |-> Head(rows).signature,
                          order_id  |-> Head(rows).order_id]},
             Tail(rows))

\* the database can execute the statement on the silver tables
SilverStatementOk(text, table, tables) ==
    text = "INSERT INTO silver_tokens"
        => ~InsertSilverTokens(tables.tokens, Unprocessed(table)).violated

\* the silver tables after the statement
ApplySilver(text, table, tables) ==
    CASE text = "INSERT INTO silver_tokens" ->
           [tables EXCEPT !.tokens =
               InsertSilverTokens(@, Unprocessed(table)).rows]
      [] text = "INSERT INTO silver_order_status" ->
           [tables EXCEPT !.statuses =
               InsertSilverOrderStatus(@, Unprocessed(table))]
      [] text = "UPDATE staging_orders INSERT INTO silver_orders" ->
           [tables EXCEPT !.orders =
               InsertSilverOrders(@, Joined(tables, Unprocessed(table)))]
      [] OTHER -> tables

Query(text, ok) == [text |-> text, ok |-> ok]

\* the query awaited has its answer
Answered(queries, ok) == [queries EXCEPT ![Len(queries)].ok = ok]

Operation(name, at, batch, acquired, released, outcome) ==
    [name |-> name, pc |-> at, batch |-> batch, acquired |-> acquired,
     released |-> released, outcome |-> outcome]

\* the batch saved last and how often in a row, counted up to 2
Saved(last, batch) ==
    [batch |-> batch,
     times |-> IF last # <<>> /\ last[1].batch = batch THEN 2 ELSE 1]

\* no operation is running
Finished == dbOp.pc \in {"idle", "done"}

\* pool.connect() rejects
ConnectFails(name) ==
    /\ Finished
    /\ dbOp' = Operation(name, "done", <<>>, 0, 0, "threw connect")
    /\ issued' = <<>>
    /\ lastSaved' = <<>>
    /\ UNCHANGED <<fetcherVars, parserVars, cacheVars, staging, working,
                   silver, silverWorking>>

\* saveBatchToDB up to client.query('BEGIN'), or to the throw of the map
\* over the amounts
CallSaveBatchToDB(batch) ==
    /\ Finished
    /\ IF \E k \in DOMAIN batch : Greater(batch[k].amount, MAX_DECIMAL_VALUE)
       THEN /\ dbOp' = Operation("saveBatchToDB", "done", <<>>, 1, 0,
                                 "threw validation")
            /\ issued' = <<>>
            /\ UNCHANGED <<working, silverWorking>>
       ELSE /\ dbOp' = Operation("saveBatchToDB", "query", batch, 1, 0,
                                 "none")
            /\ issued' = <<Query("BEGIN", "pending")>>
            /\ working' = staging
            /\ silverWorking' = silver
    /\ UNCHANGED <<fetcherVars, parserVars, cacheVars, staging, lastSaved,
                   silver>>

\* another transactional operation up to client.query('BEGIN')
CallTransactional(name) ==
    /\ Finished
    /\ dbOp' = Operation(name, "query", <<>>, 1, 0, "none")
    /\ issued' = <<Query("BEGIN", "pending")>>
    /\ working' = staging
    /\ silverWorking' = silver
    /\ lastSaved' = <<>>
    /\ UNCHANGED <<fetcherVars, parserVars, cacheVars, staging, silver>>

\* the query awaited in the try block resolves: the next one is issued, or
\* after COMMIT the client is released and the operation returns
QuerySucceeds ==
    /\ dbOp.pc = "query"
    /\ LET k    == Len(issued)
           text == issued[k].text
       IN  /\ StatementOk(text, Rows(dbOp.batch))
           /\ SilverStatementOk(text, working, silverWorking)
           /\ IF text = "COMMIT"
              THEN /\ staging' = working
                   /\ silver' = silverWorking
                   /\ UNCHANGED <<working, silverWorking>>
                   /\ issued' = Answered(issued, "ok")
                   /\ dbOp' = [dbOp EXCEPT !.pc = "done",
                                           !.batch = <<>>,
                                           !.released = @ + 1,
                                           !.outcome = "returned"]
                   /\ lastSaved' = IF dbOp.name = "saveBatchToDB"
                                   THEN <<Saved(lastSaved, dbOp.batch)>>
                                   ELSE <<>>
              ELSE /\ working' = Apply(text, working, Rows(dbOp.batch))
                   /\ silverWorking' = ApplySilver(text, working,
                                                   silverWorking)
                   /\ issued' = Append(Answered(issued, "ok"),
                                       Query(Statements(dbOp.name)[k + 1],
                                             "pending"))
                   /\ UNCHANGED <<staging, silver, dbOp, lastSaved>>
    /\ UNCHANGED <<fetcherVars, parserVars, cacheVars>>

\* the query awaited in the try block rejects: catch, client.query('ROLLBACK')
QueryFails ==
    /\ dbOp.pc = "query"
    /\ issued' = Append(Answered(issued, "failed"),
                        Query("ROLLBACK", "pending"))
    /\ dbOp' = [dbOp EXCEPT !.pc = "rollback"]
    /\ UNCHANGED <<fetcherVars, parserVars, cacheVars, staging, working,
                   lastSaved, silver, silverWorking>>

\* the database rejects the query awaited in the try block, which violates
\* a constraint: catch, client.query('ROLLBACK')
QueryRejected ==
    /\ dbOp.pc = "query"
    /\ ~(/\ StatementOk(issued[Len(issued)].text, Rows(dbOp.batch))
         /\ SilverStatementOk(issued[Len(issued)].text, working,
                              silverWorking))
    /\ issued' = Append(Answered(issued, "failed"),
                        Query("ROLLBACK", "pending"))
    /\ dbOp' = [dbOp EXCEPT !.pc = "rollback"]
    /\ UNCHANGED <<fetcherVars, parserVars, cacheVars, staging, working,
                   lastSaved, silver, silverWorking>>

\* ROLLBACK resolves: throw e, and the finally block releases the client
RollbackSucceeds ==
    /\ dbOp.pc = "rollback"
    /\ issued' = Answered(issued, "ok")
    /\ working' = staging
    /\ dbOp' = [dbOp EXCEPT !.pc = "done", !.batch = <<>>,
                            !.released = @ + 1,
                            !.outcome = "threw original"]
    /\ silverWorking' = silver
    /\ lastSaved' = <<>>
    /\ UNCHANGED <<fetcherVars, parserVars, cacheVars, staging, silver>>

\* ROLLBACK rejects: its error leaves the catch block, and the finally block
\* releases the client
RollbackFails ==
    /\ dbOp.pc = "rollback"
    /\ issued' = Answered(issued, "failed")
    /\ working' = staging
    /\ dbOp' = [dbOp EXCEPT !.pc = "done", !.batch = <<>>,
                            !.released = @ + 1,
                            !.outcome = "threw other"]
    /\ silverWorking' = silver
    /\ lastSaved' = <<>>
    /\ UNCHANGED <<fetcherVars, parserVars, cacheVars, staging, silver>>

\* a read-only operation up to its client.query
CallReadOnly(name) ==
    /\ Finished
    /\ dbOp' = Operation(name, "read", <<>>, 1, 0, "none")
    /\ issued' = <<Query("SELECT", "pending")>>
    /\ UNCHANGED <<fetcherVars, parserVars, cacheVars, staging, working,
                   lastSaved, silver, silverWorking>>

\* the SELECT resolves: client.release(), return
ReadSucceeds ==
    /\ dbOp.pc = "read"
    /\ issued' = Answered(issued, "ok")
    /\ dbOp' = [dbOp EXCEPT !.pc = "done", !.released = @ + 1,
                            !.outcome = "returned"]
    /\ UNCHANGED <<fetcherVars, parserVars, cacheVars, staging, working,
                   lastSaved, silver, silverWorking>>

\* the SELECT rejects: the error leaves the operation
ReadFails ==
    /\ dbOp.pc = "read"
    /\ issued' = Answered(issued, "failed")
    /\ dbOp' = [dbOp EXCEPT !.pc = "done", !.outcome = "threw original"]
    /\ UNCHANGED <<fetcherVars, parserVars, cacheVars, staging, working,
                   lastSaved, silver, silverWorking>>

\* three days go by between two operations
ThreeDaysPass ==
    /\ Finished
    /\ \E i \in DOMAIN staging : ~staging[i].aged
    /\ staging' = [i \in DOMAIN staging |-> [staging[i] EXCEPT !.aged = TRUE]]
    /\ lastSaved' = <<>>
    /\ UNCHANGED <<fetcherVars, parserVars, cacheVars, working, dbOp, issued,
                   silver, silverWorking>>

DbInit ==
    /\ FetcherIdle
    /\ ParserIdle

DbNext ==
    \/ \E name \in Transactional \cup ReadOnly : ConnectFails(name)
    \/ \E batch \in Batches : CallSaveBatchToDB(batch)
    \/ \E name \in Transactional \ {"saveBatchToDB",
                                     "convertMainStagingTableToSilver"} :
           CallTransactional(name)
    \/ QuerySucceeds
    \/ QueryFails
    \/ QueryRejected
    \/ RollbackSucceeds
    \/ RollbackFails
    \/ \E name \in ReadOnly : CallReadOnly(name)
    \/ ReadSucceeds
    \/ ReadFails
    \/ ThreeDaysPass

DbSpec == DbInit /\ [][DbNext]_vars

\* ------------------------------------------------------------------------
\* convertMainStagingTableToSilver on a database that executes every
\* statement no constraint forbids
\* ------------------------------------------------------------------------
\* orders of the pipeline: one created with no token address, which gets the
\* default key, one created in the token of mint mintA, for which the API
\* answers symbol USDC, and one filled in lamports
SilverOrders ==
    {OrderInfo(1, "order_1", "created", DefaultToken.key, DefaultToken.symbol,
               [num |-> 1005, exp |-> 1]),
     OrderInfo(2, "order_2", "created", "mintA", "USDC",
               [num |-> 5025, exp |-> 2]),
     OrderInfo(3, "order_3", "filled", NativeMint, "SOL",
               [num |-> 808590964, exp |-> 9])}

SilverBatches == SeqUpTo(SilverOrders, MaxRows) \ {<<>>}

SilverNext ==
    \/ \E batch \in SilverBatches : CallSaveBatchToDB(batch)
    \/ CallTransactional("convertMainStagingTableToSilver")
    \/ QuerySucceeds
    \/ QueryRejected
    \/ RollbackSucceeds

SilverSpec == DbInit /\ [][SilverNext]_vars

\* ------------------------------------------------------------------------
\* Properties
\* ------------------------------------------------------------------------
\* every order reconstructed and not lost, in the order of emission
AllOrders == Flatten(yielded) \o parsedOrders

\* order a comes before order b in the history
Precedes(a, b) == a[1] < b[1] \/ (a[1] = b[1] /\ a[2] < b[2])

\* C1: every batch yielded by fetchOrdersInBatches has at most batchSize
\* orders.
BatchWithinSize ==
    \A b \in DOMAIN yielded : Len(yielded[b]) <= batchSize

\* a full batch was cut off orders that stay accumulated
BatchCutWitness ==
    /\ yielded # <<>>
    /\ Len(yielded[Len(yielded)]) = batchSize
    /\ parsedOrders # <<>>

\* C2: the lengths of all yielded batches sum to at most totalRequired.
TotalWithinTarget == SumLen(yielded) <= totalRequired

\* C3: when the generator has ended without an error, no accumulated order
\* is left unyielded.
RemainderFlushed == pc = "done" => parsedOrders = <<>>

\* C4: fetchOrdersInBatches terminates, normally or with an error, when
\* every RPC call returns or throws.
Terminates == <>(pc \in {"done", "error"})

\* C5: once a page came back empty or collectedCount reached totalRequired,
\* no signature page is requested and no transaction is fetched; an empty
\* first page yields nothing and fetches nothing.
Stopped == emptyPage \/ collectedCount >= totalRequired

StopIsFinal ==
    /\ [][Stopped => /\ pageRequests' = pageRequests
                     /\ fetchedSigs' = fetchedSigs
                     /\ \A i \in DOMAIN tasks' : tasks'[i].phase # "fetch"]_vars
    /\ []((emptyPage /\ pageRequests = 1) =>
              (yielded = <<>> /\ fetchedSigs = {} /\ pc = "done"))

\* the target was reached by a page and the generator has ended
StopWitness ==
    /\ pc = "done"
    /\ ~emptyPage
    /\ pageRequests >= 1
    /\ totalRequired >= 1
    /\ collectedCount >= totalRequired

\* C6: a task answered 429 every time makes at most maxRetries attempts, is
\* then dropped (null, logged) without an error, leaving its siblings alone;
\* a task that gets its transaction after a 429 returns it.
RetryCeiling ==
    /\ [](\A i \in DOMAIN tasks : tasks[i].retriesCounter <= maxRetries)
    /\ [][(pc = "tasks" /\ pageRequests' = pageRequests) =>
          \A i \in DOMAIN tasks :
             LET t == tasks[i]
                 u == tasks'[i]
             IN  /\ (t.retriesCounter = maxRetries) => u.phase # "fetch"
                 /\ (/\ t.phase = "finally"
                     /\ t.outcome = "429"
                     /\ t.retriesCounter = maxRetries
                     /\ u # t)
                    => /\ u = DoneTask("null")
                       /\ SigOf(i) \in skipped'
                       /\ pc' = "tasks"
                       /\ \A j \in DOMAIN tasks \ {i} :
                             \/ tasks'[j] = tasks[j]
                             \/ /\ tasks[j].phase = "queued"
                                /\ tasks'[j] = [tasks[j] EXCEPT !.phase = "fetch"]
                 /\ (/\ t.phase = "finally"
                     /\ t.outcome = "tx"
                     /\ u # t)
                    => u = DoneTask("tx")]_vars
    /\ [][skipped' # skipped => pc' = "tasks"]_vars

\* the first signature was dropped after maxRetries 429 answers, and orders
\* of a later signature were reconstructed and yielded
RetryWitness ==
    /\ 1 \in skipped
    /\ pc = "done"
    /\ \E b \in DOMAIN yielded : \E k \in DOMAIN yielded[b] :
          yielded[b][k][1] > 1

\* C7: a fetch that failed with a non-429 error is not attempted again.
OtherErrorNotRetried ==
    [][(pc = "tasks" /\ pageRequests' = pageRequests) =>
       \A i \in DOMAIN tasks :
          (tasks[i].phase = "finally" /\ tasks[i].outcome = "other")
             => tasks'[i].phase # "fetch"]_vars

\* C8: a failure of getSignaturesForAddress leaves the generator as an
\* error; after it no page is requested, nothing is fetched and nothing is
\* yielded, and the batches yielded before stay.
PagingFailureIsFatal ==
    /\ [](pagingFailed => pc = "error")
    /\ [][pc = "error" => /\ pc' = "error"
                          /\ yielded' = yielded
                          /\ pageRequests' = pageRequests
                          /\ fetchedSigs' = fetchedSigs]_vars

\* the paging call failed after a batch had been yielded
PagingFailureWitness ==
    /\ pagingFailed
    /\ pc = "error"
    /\ yielded # <<>>
    /\ yielded[1] # <<>>

\* C9: at most MAX_CONCURRENT_REQUESTS tasks of a page are active.
ConcurrencyBounded == ActiveCount(tasks) <= MAX_CONCURRENT_REQUESTS

\* the pool is full, one task is in its backoff and one is waiting
PoolFullWitness ==
    /\ ActiveCount(tasks) = MAX_CONCURRENT_REQUESTS
    /\ \E i \in DOMAIN tasks : tasks[i].phase = "queued"
    /\ \E i \in DOMAIN tasks : tasks[i].phase = "backoff"

\* C10: orders are emitted in page order and, within a page, in the order
\* of its signatures, whatever the order in which the retrievals end.
EmissionOrdered ==
    /\ \A m, n \in DOMAIN AllOrders :
          m < n => Precedes(AllOrders[m], AllOrders[n])
    /\ \A m \in DOMAIN AllOrders :
          AllOrders[m][1] \in fetchedSigs \ skipped

\* a retrieval ended before an earlier one of its page, and one batch holds
\* orders of two transactions
OutOfOrderWitness ==
    /\ outOfOrder
    /\ \E b \in DOMAIN yielded : \E m, n \in DOMAIN yielded[b] :
          yielded[b][m][1] # yielded[b][n][1]

\* C11: the first page request uses the caller's starting cursor (none when
\* absent), every later one uses the last signature of the page returned
\* before it; the cursor changes only when a non-empty page is returned, so
\* the cursors of the requests of a run go strictly backward in the history.
CursorFollowsPages ==
    /\ [](cursorsUsed # <<>> => cursorsUsed[1] = beforeSignature)
    /\ [](\A m, n \in DOMAIN cursorsUsed :
             m < n => cursorsUsed[m] < cursorsUsed[n])
    /\ [][/\ (Len(cursorsUsed') > Len(cursorsUsed) /\ lastPage # <<>>)
              => cursorsUsed'[Len(cursorsUsed')] = lastPage[Len(lastPage)]
          /\ (lastSignature' # lastSignature)
              => /\ Len(cursorsUsed') > Len(cursorsUsed)
                 /\ lastPage' # <<>>
                 /\ lastPage'[1] = lastSignature + 1
                 /\ lastSignature' = lastPage'[Len(lastPage')]
          /\ (Len(cursorsUsed') > Len(cursorsUsed) /\ lastPage' = lastPage)
              => lastSignature' = lastSignature]_vars

\* a run that was given a starting cursor asks for a page after a page of
\* two signatures
CursorWitness ==
    /\ beforeSignature > 0
    /\ Len(cursorsUsed) >= 2
    /\ Len(lastPage) = 2
    /\ cursorsUsed[Len(cursorsUsed)] = lastPage[2]

\* ------------------------------------------------------------------------
\* Properties of OrderCreatedParser
\* ------------------------------------------------------------------------
\* parseOrderCreatedEvent has returned or thrown
CreatedParsed == transaction.kind = "src" /\ parsed.status # "none"

HasEvent(name) ==
    \E i \in DOMAIN transaction.events : transaction.events[i].name = name

\* the first event of the transaction with the name
FirstEvent(name) ==
    LET i == CHOOSE i \in DOMAIN transaction.events :
                /\ transaction.events[i].name = name
                /\ \A j \in 1..(i - 1) : transaction.events[j].name # name
    IN  transaction.events[i]

\* the integer a byte array denotes, most significant byte first
RECURSIVE Power(_, _)
Power(b, k) == IF k = 0 THEN 1 ELSE b * Power(b, k - 1)

RECURSIVE PlaceValue(_, _)
PlaceValue(bytes, i) ==
    IF i > Len(bytes) THEN 0
    ELSE bytes[i] * Power(256, Len(bytes) - i) + PlaceValue(bytes, i + 1)

\* the token of the first CreatedOrder event is resolved
TokenResolved ==
    FirstEvent("CreatedOrder").tokenAddress # <<>> /\ tokensInfo.answer = "info"

\* C12: parseOrderCreatedEvent returns null, raises no error and does not
\* consult the Resolver when the events lack a CreatedOrderId event, a
\* CreatedOrder event, or both.
CreatedNullWithoutLookup ==
    (CreatedParsed /\ (~HasEvent("CreatedOrderId") \/ ~HasEvent("CreatedOrder")))
        => (parsed.status = "null" /\ lookups = <<>>)

\* a CreatedOrder event with a token address, no CreatedOrderId event and a
\* Resolver that would fail: null
CreatedNullWitness ==
    /\ CreatedParsed
    /\ parsed.status = "null"
    /\ ~HasEvent("CreatedOrderId")
    /\ HasEvent("CreatedOrder")
    /\ FirstEvent("CreatedOrder").tokenAddress # <<>>
    /\ tokensInfo.answer = "throw"

\* C13: with at least one CreatedOrderId and one CreatedOrder event (and a
\* Resolver that does not fail) parseOrderCreatedEvent returns exactly one
\* Created order, the one it returns for the first CreatedOrderId and the
\* first CreatedOrder event alone.
FirstEventsUsed ==
    (/\ CreatedParsed
     /\ HasEvent("CreatedOrderId")
     /\ HasEvent("CreatedOrder")
     /\ tokensInfo.answer # "throw")
        => /\ parsed.status = "orders"
           /\ Len(parsed.orders) = 1
           /\ parsed.orders[1].status = "created"
           /\ parsed.orders[1].orderId
                 = ToHex(FirstEvent("CreatedOrderId").orderId)
           /\ parsed.orders =
                 parseOrderCreatedEvent(
                     <<FirstEvent("CreatedOrderId"),
                       FirstEvent("CreatedOrder")>>, tokensInfo).orders

\* two CreatedOrderId events with different ids: the order has the first
FirstEventsWitness ==
    /\ CreatedParsed
    /\ parsed.status = "orders"
    /\ Len(transaction.events) = 3
    /\ transaction.events[1].name = "CreatedOrderId"
    /\ transaction.events[2].name = "CreatedOrderId"
    /\ transaction.events[1].orderId # transaction.events[2].orderId
    /\ parsed.orders[1].orderId = ToHex(transaction.events[1].orderId)

\* C14: when the Resolver gives no result, the Created order is returned
\* with symbol 'USDC', key 'USDC' and its numbers scaled by 6 decimals.
DefaultsWhenUnresolved ==
    (/\ CreatedParsed
     /\ HasEvent("CreatedOrderId")
     /\ HasEvent("CreatedOrder")
     /\ tokensInfo.answer = "null")
        => /\ parsed.status = "orders"
           /\ Len(parsed.orders) = 1
           /\ parsed.orders[1].tokenSymbol = "USDC"
           /\ parsed.orders[1].tokenKey = "USDC"
           /\ \A n \in {parsed.orders[1].amount, parsed.orders[1].percentFee,
                        parsed.orders[1].fixedFee} : n = Zero \/ n.exp = 6

\* the Resolver was asked, gave no result, and the amount is in 6 decimals
DefaultsWitness ==
    /\ CreatedParsed
    /\ tokensInfo.answer = "null"
    /\ lookups # <<>>
    /\ parsed.status = "orders"
    /\ parsed.orders[1].tokenKey = "USDC"
    /\ parsed.orders[1].amount.num > 0
    /\ parsed.orders[1].amount.exp = 6

\* C15: amount, percentFee and fixedFee are extracted independently: each
\* one absent from the CreatedOrder event is 0 and raises no error, each one
\* present is its own raw value scaled; none is negative.
FieldsIndependent ==
    /\ (CreatedParsed /\ parsed.status = "error") => tokensInfo.answer = "throw"
    /\ (CreatedParsed /\ parsed.status = "orders") =>
          LET ev == FirstEvent("CreatedOrder")
              o  == parsed.orders[1]
          IN  /\ (ev.amount = <<>>) => o.amount = Zero
              /\ (ev.percentFee = <<>>) => o.percentFee = Zero
              /\ (ev.fixedFee = <<>>) => o.fixedFee = Zero
              /\ (ev.amount # <<>>) =>
                    o.amount.num = PlaceValue(ev.amount[1], 1)
              /\ (ev.percentFee # <<>>) => o.percentFee.num = ev.percentFee[1]
              /\ (ev.fixedFee # <<>>) => o.fixedFee.num = ev.fixedFee[1]
              /\ o.amount.num >= 0
              /\ o.percentFee.num >= 0
              /\ o.fixedFee.num >= 0

\* an event with a percent fee only: the fee is reported, the rest is 0
FieldsWitness ==
    /\ CreatedParsed
    /\ parsed.status = "orders"
    /\ FirstEvent("CreatedOrder").amount = <<>>
    /\ FirstEvent("CreatedOrder").fixedFee = <<>>
    /\ parsed.orders[1].percentFee.num > 0
    /\ parsed.orders[1].amount = Zero
    /\ parsed.orders[1].fixedFee = Zero

FilledParsed == transaction.kind = "dst" /\ parsed.status # "none"

\* N, the number of Fulfilled events of the transaction
FulfilledCount ==
    Cardinality({i \in DOMAIN transaction.events :
                    transaction.events[i].name = "Fulfilled"})

\* the instruction indices recovered from the log lines
RecoveredIndexes == _getFulfilledEventsInstIndexes(transaction.logMessages)

\* the instructions of the first inner group of a top-level instruction
GroupOf(instIndex) ==
    LET inner == transaction.innerInstructions
        at    == {g \in DOMAIN inner : inner[g].index = instIndex}
    IN  IF at = {} THEN <<>>
        ELSE inner[CHOOSE g \in at : \A h \in at : g <= h].instructions

TransferTypes == {"transfer", "transferChecked"}

HasType(instruction, types) ==
    instruction.parsed # <<>> /\ instruction.parsed[1].type \in types

TransferFound(instIndex) ==
    \E k \in DOMAIN GroupOf(instIndex) :
        HasType(GroupOf(instIndex)[k], TransferTypes)

FirstTransfer(instIndex) ==
    LET group == GroupOf(instIndex)
    IN  group[CHOOSE k \in DOMAIN group :
                 /\ HasType(group[k], TransferTypes)
                 /\ \A j \in 1..(k - 1) : ~HasType(group[j], TransferTypes)]

\* a transfer whose token the parser gives up on: neither the system
\* program's nor an spl-token instruction with parsed info
TokenUnknown(instruction) ==
    /\ instruction.programId # SystemProgram
    /\ \/ instruction.program # "spl-token"
       \/ instruction.parsed[1].info = <<>>

\* events skipped with "Transfer inner instruction not found"
NotFoundCount ==
    Cardinality({i \in DOMAIN RecoveredIndexes :
                    ~TransferFound(RecoveredIndexes[i])})

\* events skipped with "Token info not found"
UnknownTokenCount ==
    Cardinality({i \in DOMAIN RecoveredIndexes :
                    /\ TransferFound(RecoveredIndexes[i])
                    /\ TokenUnknown(FirstTransfer(RecoveredIndexes[i]))})

\* N Fulfilled events, N recovered indices, and a list was returned
CountsMatch ==
    /\ FilledParsed
    /\ parsed.status = "orders"
    /\ FulfilledCount = Len(RecoveredIndexes)

IndexMismatchIsNull ==
    (FilledParsed /\ FulfilledCount # Len(RecoveredIndexes))
        => /\ parsed.status = "null"
           /\ parsed.orders = <<>>
           /\ lookups = <<>>

\* two Fulfilled events, one recovered index with a transfer to read: null
IndexMismatchWitness ==
    /\ FilledParsed
    /\ FulfilledCount = 2
    /\ RecoveredIndexes = <<1>>
    /\ TransferFound(1)
    /\ parsed.status = "null"

\* C19: when the events hold no Fulfilled event, parseOrderFilledEvent
\* returns null whatever the log lines and inner instructions hold.
NoFulfilledIsNull ==
    (FilledParsed /\ FulfilledCount = 0) => parsed.status = "null"

\* the raw quantity of a transfer: lamports, a flat amount, or a nested
\* tokenAmount.amount
RawQuantity(instruction) ==
    LET info == instruction.parsed[1].info[1]
    IN  IF instruction.programId = SystemProgram THEN info.lamports[1]
        ELSE IF info.amount # <<>> THEN NumberOf(info.amount[1])
        ELSE NumberOf(info.tokenAmount[1])

\* the precision of the token of a transfer
PrecisionOf(instruction) ==
    IF tokensInfo.answer = "info" THEN tokensInfo.precision
    ELSE IF instruction.programId = SystemProgram THEN 9
    ELSE 6

\* C20: the amount of a Filled order is r / 10^p for the raw quantity r of
\* its transfer and the precision p of its token, whatever the shape of the
\* transfer.
FilledAmountScaled ==
    (CountsMatch /\ FulfilledCount = 1 /\ Len(parsed.orders) = 1) =>
        LET t == FirstTransfer(RecoveredIndexes[1])
        IN  parsed.orders[1].amount
               = [num |-> RawQuantity(t), exp |-> PrecisionOf(t)]

\* ------------------------------------------------------------------------
\* Properties of TokensInfoCache
\* ------------------------------------------------------------------------
\* the fetches issued for an address
QueriesFor(pubkey) ==
    Cardinality({q \in DOMAIN apiQueries : apiQueries[q] = pubkey})

\* the calls that asked for an address
CallsFor(pubkey) == {c \in DOMAIN calls : calls[c].pubkey = pubkey}

\* call c is the first call for its address
IsFirstCall(c) == \A b \in CallsFor(calls[c].pubkey) : c <= b

\* what _getTokenInfoFromApi makes of no match
Fallback(pubkey) == [key |-> pubkey, symbol |-> pubkey, precision |-> 6]

\* C21: resolving the same address twice in sequence issues exactly one
\* external lookup and returns equal results, whether the external source
\* answered the first lookup with a match or with no match.
ResolvedOnce ==
    \A i, j \in DOMAIN calls :
        (/\ i < j
         /\ calls[i].pubkey = calls[j].pubkey
         /\ calls[i].phase = "returned")
            => /\ calls[j].phase = "returned"
               /\ ~calls[j].queried
               /\ calls[j].result = calls[i].result
               /\ IsFirstCall(i) => (/\ calls[i].queried
                                     /\ QueriesFor(calls[i].pubkey) = 1)

\* an address was resolved twice; the source had no match for it
ResolvedOnceWitness ==
    /\ Len(calls) = 2
    /\ calls[1].pubkey = calls[2].pubkey
    /\ calls[1].answer = <<<<>>>>
    /\ calls[2].phase = "returned"
    /\ calls[2].result = calls[1].result
    /\ apiQueries = <<calls[1].pubkey>>

\* C22: when the external source answers with no match, getTokenInfo
\* returns {key: address, symbol: address, precision: 6} and never null;
\* when it answers with several matches, the first one is used.
FallbackOrFirstMatch ==
    \A c \in DOMAIN calls :
        (calls[c].answer # <<>>) =>
            LET data == calls[c].answer[1] IN
            /\ calls[c].phase = "returned"
            /\ calls[c].result # <<>>
            /\ (data = <<>>) => calls[c].result[1] = Fallback(calls[c].pubkey)
            /\ (data # <<>>) =>
                  calls[c].result[1] = [key       |-> calls[c].pubkey,
                                        symbol    |-> data[1].symbol,
                                        precision |-> data[1].decimals]

\* one address got the fallback, another the first of two different matches
FallbackWitness ==
    \E c, d \in DOMAIN calls :
        /\ calls[c].answer = <<<<>>>>
        /\ calls[c].result = <<Fallback(calls[c].pubkey)>>
        /\ calls[d].answer # <<>>
        /\ Len(calls[d].answer[1]) = 2
        /\ calls[d].answer[1][1] # calls[d].answer[1][2]
        /\ calls[d].result[1].symbol = calls[d].answer[1][1].symbol

\* C23: when the external lookup fails, getTokenInfo rejects and leaves the
\* cache unchanged: no entry is stored for the address, and a later resolve
\* of the address queries the external source again.
FailureNotCached ==
    /\ [][\A c \in DOMAIN calls :
             (calls[c].phase = "fetching" /\ calls'[c].phase # "fetching"
              /\ calls'[c].answer = <<>>)
                => /\ calls'[c].phase = "rejected"
                   /\ calls'[c].result = <<>>
                   /\ tokens' = tokens]_vars
    /\ [](\A i, j \in DOMAIN calls :
             (/\ i < j
              /\ calls[i].pubkey = calls[j].pubkey
              /\ calls[i].phase = "rejected"
              /\ \A k \in 1..(j - 1) :
                    calls[k].pubkey = calls[i].pubkey
                        => calls[k].phase = "rejected")
                => calls[j].queried)

\* a lookup failed, the next resolve of the address asked the source again
FailureWitness ==
    /\ Len(calls) = 2
    /\ calls[1].pubkey = calls[2].pubkey
    /\ calls[1].phase = "rejected"
    /\ calls[2].phase = "returned"
    /\ calls[2].queried
    /\ apiQueries = <<calls[1].pubkey, calls[1].pubkey>>
    /\ DOMAIN tokens = {calls[1].pubkey}

\* ------------------------------------------------------------------------
\* Properties of the pipeline
\* ------------------------------------------------------------------------
\* the transaction holds a CreatedOrderId and a CreatedOrder event
HasCreation(trn) ==
    Find(trn.srcEvents, "CreatedOrderId") # <<>>
        /\ Find(trn.srcEvents, "CreatedOrder") # <<>>

\* the order ids of the Fulfilled events of the transaction
FulfilledIds(trn) ==
    {ToHex(trn.dstEvents[e].orderId) :
        e \in {d \in DOMAIN trn.dstEvents :
                  trn.dstEvents[d].name = "Fulfilled"}}

\* the signatures whose transaction was retrieved
Retrieved == fetchedSigs \ skipped

\* C24: every order yielded by fetchOrdersInBatches carries as signature the
\* first signature of the transaction it was reconstructed from, as
\* timestamp the block time of that transaction, and as status 'created'
\* when it was built from creation events, 'filled' when it was built from
\* fulfillment events.
OrdersCarryOrigin ==
    \A b \in DOMAIN yielded : \A k \in DOMAIN yielded[b] :
        LET o == yielded[b][k] IN
        \E s \in Retrieved :
            /\ o.signature = ledger[s].signatures[1]
            /\ ledger[s].blockTime = <<o.timestamp>>
            /\ \/ /\ o.status = "created"
                  /\ HasCreation(ledger[s])
                  /\ o.orderId
                        = ToHex(Find(ledger[s].srcEvents,
                                     "CreatedOrderId")[1].orderId)
               \/ /\ o.status = "filled"
                  /\ ~HasCreation(ledger[s])
                  /\ o.orderId \in FulfilledIds(ledger[s])

\* a created and a filled order were yielded; the transaction of the filled
\* one has two signatures and block time 0
OrdersOriginWitness ==
    \E b, c \in DOMAIN yielded :
        \E k \in DOMAIN yielded[b] : \E m \in DOMAIN yielded[c] :
            /\ yielded[b][k].status = "created"
            /\ yielded[b][k].timestamp = BlockTimeOf(yielded[b][k].signature)
            /\ yielded[c][m].status = "filled"
            /\ yielded[c][m].timestamp = 0
            /\ Len(ledger[yielded[c][m].signature].signatures) = 2

\* the places of the yielded orders: <<batch, index>>
YieldedAt ==
    UNION {{<<b, k>> : k \in DOMAIN yielded[b]} : b \in DOMAIN yielded}

\* the yielded orders of the transaction with signature s
OrdersOf(s) == {at \in YieldedAt : yielded[at[1]][at[2]].signature = s}

\* C38: the orders of one transaction have one status: a transaction with a
\* creation event pair gives its one Created order and nothing else, even
\* when it holds Fulfilled events too; Filled orders come from transactions
\* without a creation event pair only, with percentFee = 0 and fixedFee = 0.
SingleStatus ==
    \A at \in YieldedAt :
        LET o == yielded[at[1]][at[2]]
            trn == ledger[o.signature]
        IN  /\ HasCreation(trn) =>
                  (o.status = "created" /\ OrdersOf(o.signature) = {at})
            /\ o.status = "filled" =>
                  /\ ~HasCreation(trn)
                  /\ o.percentFee = Zero
                  /\ o.fixedFee = Zero
            /\ \A other \in OrdersOf(o.signature) :
                  yielded[other[1]][other[2]].status = o.status

\* the run is over; a transaction with a creation pair and a Fulfilled event
\* gave one Created order with its fees, and a Filled order was yielded too
SingleStatusWitness ==
    /\ pc = "done"
    /\ \E at \in YieldedAt :
          LET o == yielded[at[1]][at[2]] IN
          /\ o.status = "created"
          /\ FulfilledIds(ledger[o.signature]) # {}
          /\ OrdersOf(o.signature) = {at}
          /\ o.percentFee # Zero
    /\ \E at \in YieldedAt :
          /\ yielded[at[1]][at[2]].status = "filled"
          /\ yielded[at[1]][at[2]].percentFee = Zero

\* ------------------------------------------------------------------------
\* Properties of DBController
\* ------------------------------------------------------------------------
\* a saveBatchToDB that was waiting for COMMIT returns
SaveReturns ==
    /\ dbOp.name = "saveBatchToDB"
    /\ dbOp.pc = "query"
    /\ dbOp'.pc = "done"
    /\ dbOp'.outcome = "returned"

\* C25: saveBatchToDB is idempotent by signature: saving the same batch
\* twice leaves staging_orders as after saving it once, and saving a batch
\* whose signatures are already stored adds no row and changes no stored
\* row.
SaveIdempotent ==
    [][SaveReturns =>
          /\ (lastSaved # <<>> /\ lastSaved[1].batch = dbOp.batch)
                => staging' = staging
          /\ (\A k \in DOMAIN dbOp.batch :
                 Stored(staging, dbOp.batch[k].signature))
                => staging' = staging
          /\ \A i \in DOMAIN staging :
                i \in DOMAIN staging' /\ staging'[i] = staging[i]]_vars

\* a batch of two signatures was saved twice in a row, and two rows are
\* stored
SaveTwiceWitness ==
    /\ dbOp.name = "saveBatchToDB"
    /\ dbOp.outcome = "returned"
    /\ lastSaved # <<>>
    /\ lastSaved[1].times = 2
    /\ Len(lastSaved[1].batch) = 2
    /\ Len(staging) = 2

\* C26: in every transactional operation BEGIN is the first query issued,
\* COMMIT is never issued after a failed statement, and the operation ends
\* with COMMIT and returns when every statement succeeded, or ends with one
\* ROLLBACK and rethrows the original error when a query failed.
TransactionDiscipline ==
    (dbOp.name \in Transactional /\ issued # <<>>) =>
        /\ issued[1].text = "BEGIN"
        /\ \A k \in DOMAIN issued :
              issued[k].text = "COMMIT"
                 => \A j \in 1..(k - 1) : issued[j].ok = "ok"
        /\ (dbOp.pc = "done") =>
              \/ /\ \A k \in DOMAIN issued : issued[k].ok = "ok"
                 /\ issued[Len(issued)].text = "COMMIT"
                 /\ \A k \in DOMAIN issued : issued[k].text # "ROLLBACK"
                 /\ dbOp.outcome = "returned"
              \/ /\ \E k \in DOMAIN issued : issued[k].ok = "failed"
                 /\ issued[Len(issued)].text = "ROLLBACK"
                 /\ \A k \in 1..(Len(issued) - 1) :
                       issued[k].text # "ROLLBACK"
                 /\ dbOp.outcome = "threw original"

\* C27: every client an operation acquires from the pool is released
\* exactly once before the operation returns or throws.
ClientReleasedOnce ==
    /\ dbOp.released <= dbOp.acquired
    /\ (dbOp.pc = "done") => dbOp.released = dbOp.acquired

\* ------------------------------------------------------------------------
\* Properties of the correlation of Fulfilled events with transfers
\* ------------------------------------------------------------------------
\* the zero-based ordinal of line k among the top-level lines
Ordinal(logMessages, k) ==
    Cardinality({j \in 1..(k - 1) : logMessages[j].invoke1})

\* the ordinals of the top-level lines that name the target program
TargetOrdinals(logMessages) ==
    {Ordinal(logMessages, k) :
        k \in {j \in DOMAIN logMessages :
                  logMessages[j].invoke1 /\ logMessages[j].programID}}

\* the invocation of the target program open after lines 1..k: <<>> when
\* none is, <<its ordinal>> otherwise. A top-level line of the target program
\* opens one, a fulfillment line closes the open one.
RECURSIVE OpenAfter(_, _)
OpenAfter(logMessages, k) ==
    IF k = 0 THEN <<>>
    ELSE LET message == logMessages[k] IN
         IF message.eventName THEN <<>>
         ELSE IF message.invoke1 /\ message.programID
         THEN <<Ordinal(logMessages, k)>>
         ELSE OpenAfter(logMessages, k - 1)

\* the invocation open when line k is read
OpenAt(logMessages, k) ==
    IF logMessages[k].invoke1 /\ logMessages[k].programID
    THEN <<Ordinal(logMessages, k)>>
    ELSE OpenAfter(logMessages, k - 1)

\* the fulfillment lines read while an invocation is open
OpenFulfillments(logMessages) ==
    {k \in DOMAIN logMessages :
        logMessages[k].eventName /\ OpenAt(logMessages, k) # <<>>}

\* C28: every index _getFulfilledEventsInstIndexes returns is the ordinal,
\* among the top-level lines, of a line naming the target program, and a
\* fulfillment line read while no invocation of the target program is open
\* records nothing: no more indexes than fulfillment lines read while one is
\* open.
IndexesAreTargetOrdinals ==
    FilledParsed =>
        /\ \A i \in DOMAIN RecoveredIndexes :
              RecoveredIndexes[i] \in TargetOrdinals(transaction.logMessages)
        /\ Len(RecoveredIndexes)
              <= Cardinality(OpenFulfillments(transaction.logMessages))

\* C29: every fulfillment line read while an invocation of the target
\* program is open records that invocation's index, index 0 included.
OpenFulfillmentsRecorded ==
    FilledParsed =>
        \A k \in OpenFulfillments(transaction.logMessages) :
            \E i \in DOMAIN RecoveredIndexes :
                <<RecoveredIndexes[i]>> = OpenAt(transaction.logMessages, k)

\* the Fulfilled events that yield an order, in event order: a transfer was
\* found in the group of the recovered index and its token is known
Kept ==
    SelectSeq([i \in DOMAIN RecoveredIndexes |-> i],
              LAMBDA i : /\ TransferFound(RecoveredIndexes[i])
                         /\ ~TokenUnknown(FirstTransfer(RecoveredIndexes[i])))

\* the order id of the i-th Fulfilled event
FulfilledId(i) == ToHex(Filter(transaction.events, "Fulfilled")[i].orderId)

\* the token a transfer moves
TokenOf(instruction) ==
    IF instruction.programId = SystemProgram THEN NativeMint
    ELSE instruction.parsed[1].info[1].mint[1]

\* C30: each Filled order pairs the order id of the i-th Fulfilled event
\* with the first transfer or transferChecked instruction of the inner
\* group whose index is the i-th recovered index; the orders keep the order
\* of the events, and a skipped event does not shift the pairing of the
\* others.
PairingKept ==
    CountsMatch =>
        /\ Len(parsed.orders) = Len(Kept)
        /\ \A j \in DOMAIN Kept :
              LET i == Kept[j]
                  t == FirstTransfer(RecoveredIndexes[i])
              IN  /\ parsed.orders[j].orderId = FulfilledId(i)
                  /\ parsed.orders[j].tokenKey = TokenOf(t)
                  /\ parsed.orders[j].amount
                        = _getAmountFromInstruction(
                              t, _getTokenInfoFromInstruction(t, tokensInfo))

\* two fulfillments, no transfer in the group of the first, several in the
\* group of the second: one order, of the second event and the first
\* transfer of the second group
PairingWitness ==
    /\ CountsMatch
    /\ FulfilledCount = 2
    /\ RecoveredIndexes = <<1, 2>>
    /\ ~TransferFound(1)
    /\ GroupOf(2) = <<SplTransferChecked, NonTransfer, SolTransfer>>
    /\ Len(parsed.orders) = 1
    /\ parsed.orders[1].orderId = FulfilledId(2)
    /\ parsed.orders[1].tokenKey = "mintA"

\* ------------------------------------------------------------------------
\* Properties of the parsers over the TokensInfoCache
\* ------------------------------------------------------------------------
\* the orders of the Fulfilled events paid by a system-program transfer
NativeOrders ==
    {j \in DOMAIN parsed.orders :
        FirstTransfer(RecoveredIndexes[j]).programId = SystemProgram}

\* C31: a Filled order paid by a system-program transfer has the key
\* So11111111111111111111111111111111111111112 and the symbol SOL, and its
\* amount is the lamports over 10^9, whatever the map holds and the API
\* answers.
NativeIdentityFixed ==
    (FilledParsed /\ parsed.status = "orders"
        /\ Len(parsed.orders) = FulfilledCount) =>
        \A j \in NativeOrders :
            /\ parsed.orders[j].tokenKey = NativeMint
            /\ parsed.orders[j].tokenSymbol = "SOL"
            /\ parsed.orders[j].amount = [num |-> 808590964, exp |-> 9]

\* the creation-detail event of the transaction
CreatedOrderEvent == Find(transaction.events, "CreatedOrder")[1]

\* parseOrderCreatedEvent has returned an order, the Resolver being the
\* TokensInfoCache
CreatedOverCache ==
    /\ tokensInfo.answer = "cache"
    /\ transaction.kind = "src"
    /\ parsed.status = "orders"

\* C37: when the creation-detail event carries a token address and the
\* lookup completes without error, the Created order has that address as
\* tokenKey, with the symbol and the precision of the cache entry of the
\* address; the 'USDC' default is applied only when the event carries no
\* token address.
CreatedKeyIsAddress ==
    CreatedOverCache =>
        LET order == parsed.orders[1]
            given == CreatedOrderEvent.tokenAddress
        IN  /\ given # <<>> =>
                  /\ order.tokenKey = given[1]
                  /\ given[1] \in DOMAIN tokens
                  /\ order.tokenSymbol = tokens[given[1]].symbol
                  /\ CreatedOrderEvent.amount # <<>> =>
                        order.amount.exp = tokens[given[1]].precision
            /\ given = <<>> =>
                  (order.tokenKey = "USDC" /\ order.tokenSymbol = "USDC")
            /\ order.tokenKey = "USDC" => given = <<>>

\* an address the API has no match for: the cache's fallback, not 'USDC'
CreatedKeyWitness ==
    /\ CreatedOverCache
    /\ CreatedOrderEvent.tokenAddress = <<"mintA">>
    /\ tokensInfo.data = <<>>
    /\ apiQueries = <<"mintA">>
    /\ parsed.orders[1].tokenKey = "mintA"
    /\ parsed.orders[1].tokenSymbol = "mintA"
    /\ parsed.orders[1].amount = [num |-> 101314781, exp |-> 6]

\* ------------------------------------------------------------------------
\* Properties of the paging and the pool of fetchOrdersInBatches
\* ------------------------------------------------------------------------
\* C32: the limit of a getSignaturesForAddress request is one fixed value:
\* the limit this run requests is the limit a run with any other batch size
\* requests.
PageLimitFixed ==
    pageRequests > 0 =>
        \A bs \in 1..MaxBatch : PageLimit(batchSize) = PageLimit(bs)

\* the tasks of the current page that have not ended
Running == {i \in DOMAIN tasks : tasks[i].phase # "done"}

\* C33: no page is requested and no transaction is reconstructed while a
\* retrieval task of the current page is running: the generator leaves the
\* await of the tasks only when every one has ended, and the tasks in
\* flight are those of the latest page.
PageAfterTasks ==
    /\ [](pc # "tasks" => Running = {})
    /\ [](Len(tasks) = Len(lastPage))
    /\ [][(\/ pageRequests' # pageRequests
           \/ parsedOrders' # parsedOrders
           \/ collectedCount' # collectedCount) => Running = {}]_vars

\* the second page in flight: one task ended, one suspended after a 429
PageAfterTasksWitness ==
    /\ pageRequests = 2
    /\ pc = "tasks"
    /\ Len(tasks) = 2
    /\ tasks[1].phase = "backoff"
    /\ tasks[2].phase = "done"

\* C34: a task suspended on its backoff timer keeps no sibling from
\* starting: while a task is in its backoff no task of the page waits for
\* the pool.
BackoffBlocksNoSibling ==
    (\E i \in DOMAIN tasks : tasks[i].phase = "backoff")
        => \A j \in DOMAIN tasks : tasks[j].phase # "queued"

\* ------------------------------------------------------------------------
\* Properties of the entries of TokensInfoCache
\* ------------------------------------------------------------------------
\* the calls for an address that returned after a fetch
Resolutions(pubkey) ==
    {c \in CallsFor(pubkey) :
        calls[c].phase = "returned" /\ calls[c].queried}

\* C36: under calls that do not overlap, an entry stored under an address
\* has that address as key, no entry is ever removed or changed, and the
\* entry of an address is the result of the first call for it that resolved.
EntriesKeptAsFirstResolved ==
    /\ [](\A k \in DOMAIN tokens : tokens[k].key = k)
    /\ [][\A k \in DOMAIN tokens :
             k \in DOMAIN tokens' /\ tokens'[k] = tokens[k]]_vars
    /\ [](\A k \in CacheAddresses :
             /\ k \in DOMAIN tokens <=> Resolutions(k) # {}
             /\ \A c \in Resolutions(k) :
                   (\A b \in Resolutions(k) : c <= b)
                       => tokens[k] = calls[c].result[1])

\* a failed lookup, a resolution and a hit for one address, and a second
\* address resolved: the entry is the one the resolution wrote
EntriesWitness ==
    /\ Len(calls) = 3
    /\ calls[1].pubkey = "mintA" /\ calls[1].phase = "rejected"
    /\ calls[2].pubkey = "mintA" /\ calls[2].phase = "returned"
    /\ calls[2].queried
    /\ calls[3].pubkey = "mintA" /\ calls[3].phase = "returned"
    /\ ~calls[3].queried
    /\ tokens = ("mintA" :> calls[2].result[1])
    /\ tokens["mintA"].symbol = "USDC"

\* ------------------------------------------------------------------------
\* Properties of TokensInfoCache under overlapping calls
\* ------------------------------------------------------------------------
\* call c leaves its await with a result in this step
Completes(c) ==
    /\ c \in DOMAIN calls
    /\ calls[c].phase = "fetching"
    /\ calls'[c].phase = "returned"

\* C35: getTokenInfo calls for one uncached address that overlap are not
\* deduplicated: a call for an address without an entry queries the API,
\* whatever calls are waiting; every query is a fetch of its own, each call
\* returns what its own answer makes, and each completion writes its result
\* over the entry of the address, so the entry is the result of the call
\* that completed last.
OverlapLastWriteWins ==
    /\ [][Len(calls') > Len(calls) =>
             LET call == calls'[Len(calls')] IN
             call.pubkey \notin DOMAIN tokens =>
                /\ call.queried
                /\ apiQueries' = Append(apiQueries, call.pubkey)]_vars
    /\ [](\A a \in CacheAddresses :
             QueriesFor(a)
                = Cardinality({c \in CallsFor(a) : calls[c].queried}))
    /\ [](\A c \in DOMAIN calls :
             (calls[c].phase = "returned" /\ calls[c].queried) =>
                calls[c].result =
                   <<[key |-> calls[c].pubkey,
                      symbol |-> IF calls[c].answer[1] = <<>>
                                 THEN calls[c].pubkey
                                 ELSE calls[c].answer[1][1].symbol,
                      precision |-> IF calls[c].answer[1] = <<>> THEN 6
                                    ELSE calls[c].answer[1][1].decimals]>>)
    /\ [][\A c \in DOMAIN calls :
             Completes(c) =>
                tokens' = (calls[c].pubkey :> calls'[c].result[1]) @@ tokens]_vars
    /\ [][tokens' # tokens => \E c \in DOMAIN calls : Completes(c)]_vars

\* two overlapping calls for one address got different answers; the entry
\* is the result of the first call, which completed last
OverlapWitness ==
    /\ Len(calls) = 2
    /\ apiQueries = <<"mintA", "mintA">>
    /\ calls[1].phase = "returned"
    /\ calls[2].phase = "returned"
    /\ calls[1].result # calls[2].result
    /\ tokens = ("mintA" :> calls[1].result[1])

\* C39: every order of a batch that saveBatchToDB saved has its row in
\* staging_orders when the operation returns, orders that share a signature
\* included.
SavedOrdersStored ==
    [][SaveReturns =>
          \A k \in DOMAIN dbOp.batch :
              \E i \in DOMAIN staging' :
                  /\ staging'[i].signature = dbOp.batch[k].signature
                  /\ staging'[i].order_id = dbOp.batch[k].orderId]_vars


\* ------------------------------------------------------------------------
\* Properties of convertMainStagingTableToSilver
\* ------------------------------------------------------------------------
Converting == dbOp.name = "convertMainStagingTableToSilver"

\* the step in which the operation returns or throws
ConvertEnds == Converting /\ dbOp.pc # "done" /\ dbOp'.pc = "done"

\* a conversion that returns leaves no staging row unprocessed, and the
\* signature of every row it found unprocessed is in silver_orders
ConvertMovesAll ==
    [][(ConvertEnds /\ dbOp'.outcome = "returned") =>
          /\ \A i \in DOMAIN staging' : staging'[i].is_processed
          /\ \A i \in DOMAIN staging :
                ~staging[i].is_processed =>
                    \E o \in silver'.orders :
                        o.signature = staging[i].signature]_vars

\* a conversion that throws changes no table
ConvertFailureChangesNothing ==
    [][(ConvertEnds /\ dbOp'.outcome # "returned") =>
          (staging' = staging /\ silver' = silver)]_vars

\* C40: on every content of staging_orders that saveBatchToDB makes of orders
\* of the pipeline, two token keys with one symbol included,
\* convertMainStagingTableToSilver returns without an error, leaving no row
\* unprocessed and every moved signature in silver_orders; a conversion that
\* throws changes nothing.
ConvertCompletes ==
    /\ [](Converting /\ dbOp.pc = "done" => dbOp.outcome = "returned")
    /\ ConvertMovesAll
    /\ ConvertFailureChangesNothing

=============================================================================
